---- MODULE Spec2Model ----
(***************************************************************************)
(* Linkable ring signatures of pokt-network/ring-go: ring construction,    *)
(* Sign, Verify, Link and the wire format, over an abstract group.         *)
(*                                                                         *)
(* The curve library (go-dleq) is outside the repository.  Its group is    *)
(* modelled symbolically: a point is a vector of coefficients over the     *)
(* independent generators G and H_p(k*G), so that no discrete logarithm    *)
(* between G and a hash-to-curve output exists, plus a torsion component   *)
(* for the cofactor of Ed25519.  HashToScalar is a lazily sampled,         *)
(* collision-free oracle.                                                  *)
(***************************************************************************)
EXTENDS Integers, Sequences, FiniteSets, TLC

\* ------------------------------------------------------------------ bounds
OrderChoice == 1          \* which prime of PrimeOrders is the group order
MaxSize     == 2          \* largest ring size, and list length, handed to a constructor
MaxSecret   == 2          \* secrets are drawn from 0..MaxSecret
MaxMsg      == 2          \* messages are Msg(1)..Msg(MaxMsg)

PrimeOrders == <<11, 13, 17>>
Order       == PrimeOrders[OrderChoice]

\* ------------------------------------------------------- program constants
scalarLen         == 32   \* serde.go: const scalarLen
Secp256k1PointLen == 33   \* CompressedPointSize of secp256k1
Ed25519PointLen   == 32   \* CompressedPointSize of Ed25519
Cofactor          == 8    \* Link: Ed25519().ScalarFromInt(8)
challengeBufCap   == 98   \* challengeBufPool.New
MsgLen            == 32   \* m [32]byte

\* nil of each Go type: a nil slice is the empty sequence
NilCurve  == "nil"
NilScalar == 0 - 1
NilPoint  == [v |-> <<>>, t |-> 0]
NilRing   == 1 - 1
NoErr     == ""
Curves    == {"secp256k1", "ed25519"}

\* ------------------------------------------------------------------ bytes
Zeros(n) == SubSeq([i \in 1..n |-> 0], 1, n)

Msg(b) == SubSeq([i \in 1..MsgLen |-> b], 1, MsgLen)
Msgs   == {Msg(b) : b \in 1..MaxMsg}

\* copy(dst[off:off+max], src): arr with the bytes after off overwritten
CopyInto(arr, off, src, max) ==
  LET n == IF Len(src) < max THEN Len(src) ELSE max
  IN SubSeq(arr, 1, off) \o SubSeq(src, 1, n) \o SubSeq(arr, off + n + 1, Len(arr))

\* mutant of PutUint32: the bytes in little-endian order
PutUint32LittleEndian(n) ==
  << n % 256, (n \div 256) % 256, (n \div 65536) % 256, (n \div 16777216) % 256 >>

\* binary.BigEndian.PutUint32
PutUint32(n) == << (n \div 16777216) % 256, (n \div 65536) % 256, (n \div 256) % 256, n % 256 >>

\* binary.BigEndian.Uint32; a value of 2^31 or more does not fit a TLC integer
\* and is reported as the largest one that does
Uint32(b) ==
  IF b[1] >= 128 THEN 2147483647
  ELSE ((b[1] * 256 + b[2]) * 256 + b[3]) * 256 + b[4]

\* ---------------------------------------------------------------- scalars
Scalars == 0..(Order - 1)

ScAdd(a, b) == (a + b) % Order
ScMul(a, b) == (a * b) % Order
ScSub(a, b) == (a - b) % Order
ScEq(a, b)  == a = b
IsZero(a)   == a = 0

\* ethereumScalar.Encode: big-endian, left-padded to 32 bytes
ScalarEncode(a) == Zeros(scalarLen - 1) \o <<a>>

RECURSIVE BytesMod(_, _, _)
BytesMod(b, i, acc) ==
  IF i > Len(b) THEN acc ELSE BytesMod(b, i + 1, (acc * 256 + b[i]) % Order)

\* DecodeToScalar: length check, big-endian value reduced modulo the order
DecodeToScalar(data) ==
  IF Len(data) # scalarLen THEN [err |-> TRUE, val |-> NilScalar]
  ELSE [err |-> FALSE, val |-> BytesMod(data, 1, 0)]

\* ----------------------------------------------------------------- points
\* v[1] is the coefficient of G, v[k+2] the coefficient of H_p(k*G) for the
\* keys k*G with k in 0..MaxSecret; t is the component in the small subgroup
\* (always 0 on secp256k1).
KeySpan == MaxSecret + 1
Dim     == KeySpan + 1

Vec(f)       == SubSeq(f, 1, Dim)
Identity     == [v |-> Vec([i \in 1..Dim |-> 0]), t |-> 0]
BasePoint    == [v |-> Vec([i \in 1..Dim |-> IF i = 1 THEN 1 ELSE 0]), t |-> 0]

PointAdd(P, Q) ==
  [v |-> Vec([i \in 1..Dim |-> (P.v[i] + Q.v[i]) % Order]), t |-> (P.t + Q.t) % Cofactor]

\* curve.ScalarMul(scalar, point) and point.ScalarMul(scalar)
ScalarMul(a, P) ==
  [v |-> Vec([i \in 1..Dim |-> (a * P.v[i]) % Order]), t |-> (a * P.t) % Cofactor]

ScalarBaseMul(a) == ScalarMul(a, BasePoint)

PointNeg(P) ==
  [v |-> Vec([i \in 1..Dim |-> (Order - P.v[i]) % Order]), t |-> (Cofactor - P.t) % Cofactor]

PointEquals(P, Q) == P = Q

\* hashToCurve(types.Point): a generator of its own for every public key
\* k*G, k in 0..MaxSecret (a key beyond them shares the generator of k % KeySpan)
hashToCurve(P) ==
  [v |-> Vec([i \in 1..Dim |-> IF i = (P.v[1] % KeySpan) + 2 THEN 1 ELSE 0]), t |-> 0]

\* --------------------------------------------------- compressed encodings
CompressedPointSize(curve) ==
  IF curve = "secp256k1" THEN Secp256k1PointLen ELSE Ed25519PointLen

\* the coordinates of a point as bytes
Coords(P) == P.v \o <<P.t>>
CoordLen  == Dim + 1

LexLess(a, b) ==
  \E i \in 1..Len(a) : a[i] < b[i] /\ \A j \in 1..(i - 1) : a[j] = b[j]

\* P and -P share an x coordinate; the encoding stores the smaller of the
\* two and one bit that tells them apart
IsCanonical(P) == ~LexLess(Coords(PointNeg(P)), Coords(P))

EncodeCoords(curve, cs, bit) ==
  IF curve = "secp256k1"
  THEN <<2 + bit>> \o Zeros(Secp256k1PointLen - 1 - CoordLen) \o cs
  ELSE cs \o Zeros(Ed25519PointLen - 1 - CoordLen) \o <<128 * bit>>

EncodeSigned(curve, cs, ncs) ==
  IF LexLess(ncs, cs) THEN EncodeCoords(curve, ncs, 1) ELSE EncodeCoords(curve, cs, 0)

\* Point.Encode
PointEncode(curve, P) == EncodeSigned(curve, Coords(P), Coords(PointNeg(P)))

CoordsToPoint(cs) == [v |-> SubSeq(cs, 1, Dim), t |-> cs[Dim + 1]]

WellFormedCoords(curve, cs) ==
  /\ \A i \in 1..Dim : cs[i] < Order
  /\ cs[Dim + 1] < (IF curve = "secp256k1" THEN 1 ELSE Cofactor)
  /\ IsCanonical(CoordsToPoint(cs))

\* curve.DecodeToPoint: fails on a wrong length or an encoding of no point
DecodeToPoint(curve, data) ==
  LET bad == [err |-> TRUE, val |-> NilPoint]
  IN IF Len(data) # CompressedPointSize(curve) THEN bad
     ELSE LET pad  == CompressedPointSize(curve) - 1 - CoordLen
              sec  == curve = "secp256k1"
              cs   == IF sec THEN SubSeq(data, 2 + pad, Len(data)) ELSE SubSeq(data, 1, CoordLen)
              zs   == IF sec THEN SubSeq(data, 2, 1 + pad) ELSE SubSeq(data, CoordLen + 1, CoordLen + pad)
              flag == IF sec THEN data[1] ELSE data[Len(data)]
              okf  == IF sec THEN flag \in {2, 3} ELSE flag \in {0, 128}
              neg  == IF sec THEN flag = 3 ELSE flag = 128
          IN IF ~okf \/ zs # Zeros(pad) \/ ~WellFormedCoords(curve, cs) THEN bad
             ELSE LET A == CoordsToPoint(cs)
                  IN IF neg /\ PointNeg(A) = A THEN bad
                     ELSE [err |-> FALSE, val |-> IF neg THEN PointNeg(A) ELSE A]

\* ------------------------------------------------------------------ state
VARIABLES
  rings,             \* heap of Ring objects, referenced by index
  sigs,              \* RingSig objects
  wire,              \* bytes returned by the last Serialize
  oracle,            \* HashToScalar: inputs hashed so far and their scalars
  hseed,             \* the scalar the first hashed input maps to
  challengeBufPool,  \* sync.Pool of challenge buffers (backing arrays)
  scalarPools,       \* sync.Pool of scratch vectors, one per bucket
  made,              \* history: how each ring and signature came about
  ret,               \* the last call: operation, arguments, outcome
  calls              \* calls in flight, one goroutine each, and their heap

vars == <<rings, sigs, wire, oracle, hseed, challengeBufPool, scalarPools, made, ret, calls>>

\* sample values NewRandomScalar may return: zero and the secret MaxSecret
RandScalars == {0, MaxSecret}
HashSeeds   == {0, 3}

\* NewRandomScalar: 32 random bytes reduced modulo the order, zero included
NewRandomScalar(draw) == draw % Order

\* the world an operation reads and writes
World == [rings |-> rings, or |-> oracle, bp |-> challengeBufPool, sp |-> scalarPools]

\* ------------------------------------------------------------ sync.Pool
\* mutant of PoolGet: the item handed out stays in the pool
PoolPeek(pool, new) ==
  IF pool = <<>> THEN [item |-> new, rest |-> <<>>]
  ELSE [item |-> Head(pool), rest |-> pool]

\* Get: an item of the pool, taken out of it, or a new one
PoolGet(pool, new) ==
  IF pool = <<>> THEN [item |-> new, rest |-> <<>>]
  ELSE [item |-> Head(pool), rest |-> Tail(pool)]

PoolPut(pool, item) == <<item>> \o pool

\* ------------------------------------------------------------ challenge
\* HashToScalar: a hash of 256 bits reduced modulo the order.  Equal inputs
\* give equal scalars; a new input gives a scalar no earlier input gave.
HashToScalar(or, data) ==
  IF data \in DOMAIN or THEN [c |-> or[data], or |-> or]
  ELSE LET c == (hseed + Cardinality(DOMAIN or)) % Order
       IN [c |-> c, or |-> or @@ (data :> c)]

\* the oracle stays collision-free while it holds fewer inputs than scalars
OracleRoom(or, n) == Cardinality(DOMAIN or) + n <= Order

\* encodePointInto: the encoding copied into dst = buf[off:off+ps]
encodePointInto(curve, P, buf, off, ps) == CopyInto(buf, off, PointEncode(curve, P), ps)

NewChallengeBuf == Zeros(challengeBufCap)

\* mutant of challengeFill: the message is not copied into the buffer
challengeFillNoMessage(curve, m, l, r, buf, ps) ==
  encodePointInto(curve, r, encodePointInto(curve, l, buf, MsgLen, ps), MsgLen + ps, ps)

\* the buffer with the message, L and R written into it
challengeFill(curve, m, l, r, buf, ps) ==
  encodePointInto(curve, r,
                  encodePointInto(curve, l, CopyInto(buf, 0, m, MsgLen), MsgLen, ps),
                  MsgLen + ps, ps)

\* mutant of challengeOut: the buffer is hashed up to its capacity
challengeOutWhole(w, rest, buf, need) ==
  LET h == HashToScalar(w.or, buf)
  IN [c |-> h.c, w |-> [w EXCEPT !.or = h.or, !.bp = PoolPut(rest, buf)]]

\* the filled buffer hashed and put back into the pool
challengeOut(w, rest, buf, need) ==
  LET h == HashToScalar(w.or, SubSeq(buf, 1, need))
  IN [c |-> h.c, w |-> [w EXCEPT !.or = h.or, !.bp = PoolPut(rest, buf)]]

challenge(w, curve, m, l, r) ==
  LET ps   == CompressedPointSize(curve)
      need == MsgLen + 2 * ps
      got  == PoolGet(w.bp, NewChallengeBuf)
  IN challengeOut(w, got.rest,
                  challengeFill(curve, m, l, r,
                                IF Len(got.item) < need THEN Zeros(need) ELSE got.item, ps),
                  need)

\* -------------------------------------------------------- scratch vectors
scalarPoolCaps == <<16, 32, 64, 128, 256>>

NilScalars(n) == SubSeq([i \in 1..n |-> NilScalar], 1, n)

Bucket(n) ==
  IF \E i \in 1..Len(scalarPoolCaps) : n <= scalarPoolCaps[i]
  THEN CHOOSE i \in 1..Len(scalarPoolCaps) :
         n <= scalarPoolCaps[i] /\ \A j \in 1..(i - 1) : n > scalarPoolCaps[j]
  ELSE 0

\* getScalarScratch: the backing array of the slice b[:n] and the pools left
getScalarScratch(sp, n) ==
  LET k == Bucket(n)
  IN IF k = 0 THEN [arr |-> NilScalars(n), sp |-> sp]
     ELSE LET got == PoolGet(sp[k], NilScalars(scalarPoolCaps[k]))
          IN IF Len(got.item) < n
             THEN [arr |-> NilScalars(n), sp |-> [sp EXCEPT ![k] = got.rest]]
             ELSE [arr |-> got.item, sp |-> [sp EXCEPT ![k] = got.rest]]

\* mutant of putScalarScratch: the elements are not cleared
putScalarScratchAsIs(sp, arr, n) ==
  LET capb == Len(arr)
  IN IF \E i \in 1..Len(scalarPoolCaps) : capb = scalarPoolCaps[i]
     THEN LET k == CHOOSE i \in 1..Len(scalarPoolCaps) : capb = scalarPoolCaps[i]
          IN [sp EXCEPT ![k] = PoolPut(sp[k], arr)]
     ELSE sp

\* putScalarScratch(b) with len(b) = n: clear the elements, pool by capacity
putScalarScratch(sp, arr, n) ==
  LET capb    == Len(arr)
      cleared == [i \in 1..capb |-> IF i <= n THEN NilScalar ELSE arr[i]]
  IN IF \E i \in 1..Len(scalarPoolCaps) : capb = scalarPoolCaps[i]
     THEN LET k == CHOOSE i \in 1..Len(scalarPoolCaps) : capb = scalarPoolCaps[i]
          IN [sp EXCEPT ![k] = PoolPut(sp[k], cleared)]
     ELSE sp

\* ------------------------------------------------------ ring constructors
\* A point handed to a constructor is an object: addr is its identity
\* (the pointer), val the point it holds.
PointObj(a, P) == [addr |-> a, val |-> P]
FreshAddr == <<0, 0>>

NoRing       == [pubkeys |-> <<>>, curve |-> NilCurve, hp |-> <<>>]
Failure(msg) == [err |-> msg, panic |-> FALSE, ring |-> NoRing]
Panics       == [err |-> NoErr, panic |-> TRUE, ring |-> NoRing]
Success(r)   == [err |-> NoErr, panic |-> FALSE, ring |-> r]

\* a Go map keyed by types.Point compares the interface values: two keys
\* are the same key when they are the same pointer
MapKey(obj) == obj.addr

\* mutant of HashAll: the last key is left without its generator
HashAllButLast(pks) ==
  SubSeq([i \in 1..Len(pks) |-> hashToCurve(pks[i])], 1, Len(pks) - 1)

HashAll(pks) == SubSeq([i \in 1..Len(pks) |-> hashToCurve(pks[i])], 1, Len(pks))

\* mutant of NewKeyRingFromPublicKeys: the signer's key is put first,
\* whatever idx is
NewKeyRingSignerFirst(curve, pubkeys, privKey, idx) ==
  LET size   == Len(pubkeys) + 1
      pubkey == PointObj(FreshAddr, ScalarBaseMul(privKey))
  IN IF idx > Len(pubkeys) THEN Failure("index out of bounds: idx > len(pubkeys)")
     ELSE IF idx < 0 THEN Failure("index out of bounds: idx < 0")
     ELSE IF IsZero(privKey) THEN Failure("private key is zero")
     ELSE LET newRing == [i \in 1..size |-> IF i = 1 THEN pubkey ELSE pubkeys[i - 1]]
              pubkeysMap == {MapKey(newRing[i]) : i \in 1..size}
          IN IF Cardinality(pubkeysMap) # size THEN Failure("duplicate public keys in ring")
             ELSE LET pks == [i \in 1..size |-> newRing[i].val]
                  IN Success([pubkeys |-> pks, curve |-> curve, hp |-> HashAll(pks)])

NewKeyRingFromPublicKeys(curve, pubkeys, privKey, idx) ==
  LET size   == Len(pubkeys) + 1
      pubkey == PointObj(FreshAddr, ScalarBaseMul(privKey))
  IN IF idx > Len(pubkeys) THEN Failure("index out of bounds: idx > len(pubkeys)")
     ELSE IF idx < 0 THEN Failure("index out of bounds: idx < 0")
     ELSE IF IsZero(privKey) THEN Failure("private key is zero")
     ELSE LET newRing == [i \in 1..size |->
                            IF i - 1 = idx THEN pubkey
                            ELSE IF i - 1 < idx THEN pubkeys[i] ELSE pubkeys[i - 1]]
              pubkeysMap == {MapKey(newRing[i]) : i \in 1..size}
          IN IF Cardinality(pubkeysMap) # size THEN Failure("duplicate public keys in ring")
             ELSE LET pks == [i \in 1..size |-> newRing[i].val]
                  IN Success([pubkeys |-> pks, curve |-> curve, hp |-> HashAll(pks)])

NewFixedKeyRingFromPublicKeys(curve, pubkeys) ==
  LET size       == Len(pubkeys)
      pubkeysMap == {MapKey(pubkeys[i]) : i \in 1..size}
      newRing    == [i \in 1..size |-> pubkeys[i].val]
  IN IF Cardinality(pubkeysMap) # size THEN Failure("duplicate public keys in ring")
     ELSE Success([pubkeys |-> newRing, curve |-> curve, hp |-> HashAll(newRing)])

\* mutant of NewKeyRing: no check of the private key
NewKeyRingAnyKey(curve, size, privKey, idx, rnd) ==
  IF idx >= size THEN Failure("index out of bounds")
  ELSE IF size < 0 \/ idx < 0 THEN Panics
  ELSE LET pubkey == ScalarBaseMul(privKey)
           ring   == [i \in 1..size |->
                        IF i - 1 = idx THEN pubkey ELSE ScalarBaseMul(NewRandomScalar(rnd[i]))]
       IN Success([pubkeys |-> ring, curve |-> curve, hp |-> HashAll(ring)])

\* rnd[i] is the scalar NewRandomScalar returns for index i-1
NewKeyRing(curve, size, privKey, idx, rnd) ==
  IF idx >= size THEN Failure("index out of bounds")
  ELSE IF IsZero(privKey) THEN Failure("private key is zero")
  ELSE IF size < 0 \/ idx < 0 THEN Panics      \* make with a negative size, ring[idx]
  ELSE LET pubkey == ScalarBaseMul(privKey)
           ring   == [i \in 1..size |->
                        IF i - 1 = idx THEN pubkey ELSE ScalarBaseMul(NewRandomScalar(rnd[i]))]
       IN Success([pubkeys |-> ring, curve |-> curve, hp |-> HashAll(ring)])

\* ------------------------------------------------------------ Ring.Equals
\* BasePoint and AltBasePoint of the two curves compared with Equals: the
\* points of one curve are equal, a point of another curve is of another
\* type and Equals returns false for it
BasesEqual(curveA, curveB) == curveA = curveB

\* mutant of RingEquals: the keys compared as sets, whatever their order
RingEqualsAnyOrder(r, other) ==
  IF Len(r.pubkeys) # Len(other.pubkeys) THEN FALSE
  ELSE IF {r.pubkeys[i] : i \in 1..Len(r.pubkeys)} # {other.pubkeys[i] : i \in 1..Len(r.pubkeys)}
  THEN FALSE
  ELSE BasesEqual(r.curve, other.curve)

\* Ring.Equals: the sizes, then the keys index by index, then the curves
RingEquals(r, other) ==
  IF Len(r.pubkeys) # Len(other.pubkeys) THEN FALSE
  ELSE IF \E i \in 1..Len(r.pubkeys) : ~PointEquals(r.pubkeys[i], other.pubkeys[i]) THEN FALSE
  ELSE BasesEqual(r.curve, other.curve)

\* -------------------------------------------------------------------- Sign
NilSig == [ring |-> NilRing, c |-> NilScalar, s |-> <<>>, image |-> NilPoint]

\* mutant of KeyImage: the base point hashed instead of the public key
KeyImageOfBase(privKey) == ScalarMul(privKey, hashToCurve(BasePoint))

\* key image I = x * H_p(x*G)
KeyImage(privKey) == ScalarMul(privKey, hashToCurve(ScalarBaseMul(privKey)))

\* mutant of CloseRing: the ring closed with a sum, s[j] = u + c[j]*x
CloseRingBySum(u, cj, privKey) == ScAdd(u, ScMul(cj, privKey))

\* s[j] = u - c[j]*x
CloseRing(u, cj, privKey) == ScSub(u, ScMul(cj, privKey))

\* L_i = s_i*G + c_i*P_i
LPoint(ci, si, P) == PointAdd(ScalarMul(ci, P), ScalarBaseMul(si))

\* mutant of RPoint: s_i multiplies the base point, not H_p(P_i)
RPointOnBase(ci, si, H, image) == PointAdd(ScalarMul(ci, image), ScalarBaseMul(si))

\* R_i = s_i*H_p(P_i) + c_i*I
RPoint(ci, si, H, image) == PointAdd(ScalarMul(ci, image), ScalarMul(si, H))

SignOut(err, panic, sig, w) == [err |-> err, panic |-> panic, sig |-> sig, w |-> w]

\* the loop state after c[next] = challenge(...) and s[pos] = si
SignStepOut(lp, pos, next, si, ch) ==
  [c  |-> [lp.c EXCEPT ![next] = ch.c],
   s  |-> [lp.s EXCEPT ![pos] = si],
   w  |-> ch.w,
   st |-> "ok"]

\* one iteration of the loop "for i := 1; i < size; i++"; rs[i] is the
\* scalar NewRandomScalar returns in it
SignStep(lp, i, m, ring, image, ourIdx, rs) ==
  LET size == Len(ring.pubkeys)
      idx  == (ourIdx + i) % size
      si   == NewRandomScalar(rs[i])
      ci   == lp.c[idx + 1]
  IN IF ring.pubkeys[idx + 1] = NilPoint THEN [lp EXCEPT !.st = "no public key at index"]
     ELSE IF ci = NilScalar \/ idx + 1 > Len(ring.hp) THEN [lp EXCEPT !.st = "panic"]
     ELSE IF ring.hp[idx + 1] = NilPoint THEN [lp EXCEPT !.st = "panic"]
     ELSE SignStepOut(lp, idx + 1, ((idx + 1) % size) + 1, si,
                      challenge(lp.w, ring.curve, m,
                                LPoint(ci, si, ring.pubkeys[idx + 1]),
                                RPoint(ci, si, ring.hp[idx + 1], image)))

RECURSIVE SignLoop(_, _, _, _, _, _, _)
SignLoop(lp, i, m, ring, image, ourIdx, rs) ==
  IF i >= Len(ring.pubkeys) \/ lp.st # "ok" THEN lp
  ELSE SignLoop(SignStep(lp, i, m, ring, image, ourIdx, rs), i + 1, m, ring, image, ourIdx, rs)

\* the loop state after c[idx] = challenge(curve, m, l, r)
SignStart(carr, next, size, ch) ==
  [c |-> [carr EXCEPT ![next] = ch.c], s |-> NilScalars(size), w |-> ch.w, st |-> "ok"]

SignFail(e, w, lp) == [out |-> SignOut(e, FALSE, NilSig, w), carr |-> lp.c]

\* the last self-check and the signature returned
SignCheck(lp, k, s, cCheck) ==
  IF ~ScEq(cCheck.c, lp.c[((k.ourIdx + 1) % k.size) + 1])
  THEN SignFail("challenge check failed", cCheck.w, lp)
  ELSE [out  |-> SignOut(NoErr, FALSE,
                         [ring |-> k.rid, c |-> lp.c[1], s |-> s, image |-> k.image],
                         cCheck.w),
        carr |-> lp.c]

\* closing the ring after the loop, and the self-checks
SignClose(lp, k) ==
  IF lp.st = "panic" THEN [out |-> SignOut(NoErr, TRUE, NilSig, lp.w), carr |-> lp.c]
  ELSE IF lp.st # "ok" THEN SignFail(lp.st, lp.w, lp)
  ELSE IF lp.c[k.ourIdx + 1] = NilScalar THEN [out |-> SignOut(NoErr, TRUE, NilSig, lp.w), carr |-> lp.c]
  ELSE LET cj == lp.c[k.ourIdx + 1]
           sj == CloseRing(k.u, cj, k.privKey)
       IN IF ~PointEquals(LPoint(cj, sj, k.pubkey), k.l)
          THEN SignFail("failed to close ring: uG != sG + cP", lp.w, lp)
          ELSE IF ~PointEquals(RPoint(cj, sj, k.h, k.image), k.r)
          THEN SignFail("failed to close ring: uH(P) != sH(P) + cI", lp.w, lp)
          ELSE SignCheck(lp, k, [lp.s EXCEPT ![k.ourIdx + 1] = sj],
                         challenge(lp.w, k.curve, k.m, k.l, k.r))

\* what Sign sets up before the loop
SignSetup(m, rid, ring, privKey, ourIdx, uDraw) ==
  LET pubkey == ScalarBaseMul(privKey)
      h      == hashToCurve(pubkey)
      u      == NewRandomScalar(uDraw)
  IN [m |-> m, rid |-> rid, curve |-> ring.curve, size |-> Len(ring.pubkeys),
      privKey |-> privKey, ourIdx |-> ourIdx, pubkey |-> pubkey, h |-> h,
      image |-> KeyImage(privKey), u |-> u, l |-> ScalarBaseMul(u), r |-> ScalarMul(u, h)]

\* the part of Sign that runs between getScalarScratch and the deferred
\* putScalarScratch; carr is the backing array of the scratch slice c
SignBody(w, carr, k, ring, rs) ==
  SignClose(SignLoop(SignStart(carr, ((k.ourIdx + 1) % k.size) + 1, k.size,
                               challenge(w, k.curve, k.m, k.l, k.r)),
                     1, k.m, ring, k.image, k.ourIdx, rs),
            k)

\* the deferred putScalarScratch(c)
SignReturn(body, size) ==
  [body.out EXCEPT !.w.sp = putScalarScratch(body.out.w.sp, body.carr, size)]

SignRun(w, got, k, ring, rs) ==
  SignReturn(SignBody([w EXCEPT !.sp = got.sp], got.arr, k, ring, rs), k.size)

\* Sign(m, ring, privKey, ourIdx)
Sign(w, m, rid, privKey, ourIdx, uDraw, rs) ==
  LET ring == w.rings[rid]
      size == Len(ring.pubkeys)
  IN IF size < 2 THEN SignOut("size of ring less than two", FALSE, NilSig, w)
     ELSE IF ourIdx >= size THEN SignOut("secret index out of range of ring size", FALSE, NilSig, w)
     ELSE IF IsZero(privKey) THEN SignOut("private key is zero", FALSE, NilSig, w)
     ELSE IF ourIdx < 0 THEN SignOut(NoErr, TRUE, NilSig, w)                 \* ring.pubkeys[ourIdx]
     ELSE IF ring.pubkeys[ourIdx + 1] = NilPoint THEN SignOut(NoErr, TRUE, NilSig, w)
     ELSE IF ~PointEquals(ring.pubkeys[ourIdx + 1], ScalarBaseMul(privKey))
          THEN SignOut("secret index in ring is not signer", FALSE, NilSig, w)
     ELSE SignRun(w, getScalarScratch(w.sp, size),
                  SignSetup(m, rid, ring, privKey, ourIdx, uDraw), ring, rs)

\* Ring.Sign(m, privKey): sign at the first index that holds privKey*G
RingSign(w, m, rid, privKey, uDraw, rs) ==
  LET ring   == w.rings[rid]
      pubkey == ScalarBaseMul(privKey)
      hits   == {i \in 1..Len(ring.pubkeys) : PointEquals(ring.pubkeys[i], pubkey)}
  IN IF hits = {} THEN SignOut("failed to find given key in public key set", FALSE, NilSig, w)
     ELSE Sign(w, m, rid, privKey, (CHOOSE i \in hits : \A j \in hits : i <= j) - 1, uDraw, rs)

\* ------------------------------------------------------------------ Verify
\* the keys of the ring normalised through the curve: Encode, DecodeToPoint
Normalised(ring) ==
  [i \in 1..Len(ring.pubkeys) |->
     IF ring.pubkeys[i] = NilPoint THEN [err |-> TRUE, val |-> NilPoint]
     ELSE DecodeToPoint(ring.curve, PointEncode(ring.curve, ring.pubkeys[i]))]

HashNormalised(ring, dec) ==
  IF \E i \in 1..Len(dec) : dec[i].err THEN [err |-> TRUE, ring |-> ring]
  ELSE [err |-> FALSE, ring |-> [ring EXCEPT !.hp = [i \in 1..Len(dec) |-> hashToCurve(dec[i].val)]]]

\* mutant of ensureHP: a populated hp is written again, one point longer
ensureHPGrows(ring) ==
  IF ring.curve = NilCurve THEN [err |-> TRUE, ring |-> ring]
  ELSE IF Len(ring.pubkeys) = 0 THEN [err |-> TRUE, ring |-> ring]
  ELSE [err |-> FALSE, ring |-> [ring EXCEPT !.hp = Append(ring.hp, Identity)]]

\* Ring.ensureHP: hp is recomputed, from the re-decoded keys, when it is
\* missing or of another length; the ring is written only on success
ensureHP(ring) ==
  IF ring.curve = NilCurve THEN [err |-> TRUE, ring |-> ring]
  ELSE IF Len(ring.pubkeys) = 0 THEN [err |-> TRUE, ring |-> ring]
  ELSE IF Len(ring.hp) = Len(ring.pubkeys) THEN [err |-> FALSE, ring |-> ring]
  ELSE HashNormalised(ring, Normalised(ring))

VerifyOut(val, panic, w) == [val |-> val, panic |-> panic, w |-> w]

VerifyStepOut(lp, next, ch) == [c |-> [lp.c EXCEPT ![next] = ch.c], w |-> ch.w, st |-> "ok"]

\* one iteration of the loop "for i := 0; i < size; i++"; a nil scalar or
\* point handed to the curve is a nil dereference
VerifyStep(lp, i, m, ring, sig) ==
  IF lp.c[i + 1] = NilScalar \/ ring.pubkeys[i + 1] = NilPoint
     \/ sig.s[i + 1] = NilScalar \/ ring.hp[i + 1] = NilPoint
  THEN [lp EXCEPT !.st = "panic"]
  ELSE VerifyStepOut(lp, IF i = Len(ring.pubkeys) - 1 THEN 1 ELSE i + 2,
                     challenge(lp.w, ring.curve, m,
                               LPoint(lp.c[i + 1], sig.s[i + 1], ring.pubkeys[i + 1]),
                               RPoint(lp.c[i + 1], sig.s[i + 1], ring.hp[i + 1], sig.image)))

RECURSIVE VerifyLoop(_, _, _, _, _)
VerifyLoop(lp, i, m, ring, sig) ==
  IF i >= Len(ring.pubkeys) \/ lp.st # "ok" THEN lp
  ELSE VerifyLoop(VerifyStep(lp, i, m, ring, sig), i + 1, m, ring, sig)

\* mutant of VerifyStart: c[0] is not set before the loop
VerifyStartNoC0(w, got, sig) ==
  [c |-> got.arr, w |-> [w EXCEPT !.sp = got.sp], st |-> "ok"]

\* "c := getScalarScratch(size)" and "c[0] = sig.c"
VerifyStart(w, got, sig) ==
  [c |-> [got.arr EXCEPT ![1] = sig.c], w |-> [w EXCEPT !.sp = got.sp], st |-> "ok"]

\* the deferred putScalarScratch(c) and "return sig.c.Eq(c[0])"
VerifyReturn(lp, sig, size) ==
  VerifyOut(IF lp.st = "panic" THEN FALSE ELSE ScEq(sig.c, lp.c[1]), lp.st = "panic",
            [lp.w EXCEPT !.sp = putScalarScratch(lp.w.sp, lp.c, size)])

VerifyRun(w, sig, m, e, size) ==
  IF e.err THEN VerifyOut(FALSE, FALSE, w)
  ELSE VerifyReturn(VerifyLoop(VerifyStart([w EXCEPT !.rings[sig.ring] = e.ring],
                                           getScalarScratch(w.sp, size), sig),
                               0, m, e.ring, sig),
                    sig, size)

\* RingSig.Verify(m) on the signature object sig
Verify(w, sig, m) ==
  IF sig.ring = NilRing THEN VerifyOut(FALSE, FALSE, w)
  ELSE LET ring == w.rings[sig.ring]
           size == Len(ring.pubkeys)
       IN IF size < 2 \/ Len(sig.s) # size \/ sig.c = NilScalar
             \/ sig.image = NilPoint \/ ring.curve = NilCurve
          THEN VerifyOut(FALSE, FALSE, w)
          ELSE VerifyRun(w, sig, m, ensureHP(ring), size)

\* -------------------------------------------------------------------- Link
\* Ed25519().ScalarFromInt(8)
ScalarFromInt(i) == i % Order

\* mutant of ImagesEqual: the images compared as they are on every curve
ImagesEqualDirect(curve, imageA, imageB) == PointEquals(imageA, imageB)

ImagesEqual(curve, imageA, imageB) ==
  IF curve = "ed25519"
  THEN PointEquals(ScalarMul(ScalarFromInt(Cofactor), imageA), ScalarMul(ScalarFromInt(Cofactor), imageB))
  ELSE PointEquals(imageA, imageB)

\* the curve that made the image of sig: the curve of its ring (Sign,
\* Deserialize); a signature without a ring is taken to be of the curve of
\* the other one
ImageCurve(w, sig, other) ==
  IF sig.ring = NilRing THEN w.rings[other.ring].curve ELSE w.rings[sig.ring].curve

\* mutant of Link: the image of sigA compared with itself
LinkSelf(w, sigA, sigB) ==
  IF sigA.ring = NilRing \/ sigA.image = NilPoint \/ sigB.image = NilPoint
  THEN [val |-> FALSE, panic |-> TRUE]
  ELSE [val |-> ImagesEqual(w.rings[sigA.ring].curve, sigA.image, sigA.image), panic |-> FALSE]

\* Link(sigA, sigB): a missing ring or image is a nil dereference.  The
\* curve of sigA alone picks the branch.  An image of another curve than
\* sigA's is a point of another type: on the Ed25519 branch its ScalarMul
\* receives the Ed25519 cofactor scalar, and the unchecked type assertion
\* of ethereumPoint.ScalarMul panics; on the default branch Equals
\* returns false for it.
Link(w, sigA, sigB) ==
  IF sigA.ring = NilRing \/ sigA.image = NilPoint \/ sigB.image = NilPoint
  THEN [val |-> FALSE, panic |-> TRUE]
  ELSE IF ImageCurve(w, sigB, sigA) = w.rings[sigA.ring].curve
  THEN [val |-> ImagesEqual(w.rings[sigA.ring].curve, sigA.image, sigB.image), panic |-> FALSE]
  ELSE [val |-> FALSE, panic |-> w.rings[sigA.ring].curve = "ed25519"]

\* --------------------------------------------------------------- Serialize
RECURSIVE SerializeEntries(_, _, _)
SerializeEntries(ring, sig, i) ==
  IF i > Len(ring.pubkeys) THEN <<>>
  ELSE ScalarEncode(sig.s[i]) \o PointEncode(ring.curve, ring.pubkeys[i])
         \o SerializeEntries(ring, sig, i + 1)

\* RingSig.Serialize of a signature with a ring, c, image and full s
Serialize(w, sig) ==
  LET ring == w.rings[sig.ring]
  IN PutUint32(Len(ring.pubkeys)) \o ScalarEncode(sig.c) \o PointEncode(ring.curve, sig.image)
       \o SerializeEntries(ring, sig, 1)

\* ------------------------------------------------------------- Deserialize
DesOut(err, ring, sig) == [err |-> err, ring |-> ring, sig |-> sig]

\* mutant of EntryAt: the offset of the pairs leaves out the image
EntryAtNoImage(curve, in, i) ==
  LET ps  == CompressedPointSize(curve)
      off == 4 + scalarLen + (i - 1) * (scalarLen + ps)
  IN [s |-> DecodeToScalar(SubSeq(in, off + 1, off + scalarLen)),
      p |-> DecodeToPoint(curve, SubSeq(in, off + scalarLen + 1, off + scalarLen + ps))]

\* the i-th pair (s[i], pubkeys[i]) read after the header, c and the image
EntryAt(curve, in, i) ==
  LET ps  == CompressedPointSize(curve)
      off == 4 + scalarLen + ps + (i - 1) * (scalarLen + ps)
  IN [s |-> DecodeToScalar(SubSeq(in, off + 1, off + scalarLen)),
      p |-> DecodeToPoint(curve, SubSeq(in, off + scalarLen + 1, off + scalarLen + ps))]

\* mutant of Deserialize: no check of the size read from the header
DeserializeAnySize(curve, in) ==
  IF Len(in) < 4 THEN DesOut("input too short: missing size header", NoRing, NilSig)
  ELSE LET size == Uint32(SubSeq(in, 1, 4))
           ps   == CompressedPointSize(curve)
       IN IF size > Len(in) THEN DesOut("input too short", NoRing, NilSig)
          ELSE IF Len(in) < 4 + scalarLen + ps + size * (scalarLen + ps)
               THEN DesOut("input too short", NoRing, NilSig)
          ELSE LET c   == DecodeToScalar(SubSeq(in, 5, 4 + scalarLen))
                   img == DecodeToPoint(curve, SubSeq(in, 5 + scalarLen, 4 + scalarLen + ps))
               IN IF c.err THEN DesOut("decode c", NoRing, NilSig)
                  ELSE IF img.err THEN DesOut("decode image", NoRing, NilSig)
                  ELSE IF \E i \in 1..size : EntryAt(curve, in, i).s.err \/ EntryAt(curve, in, i).p.err
                       THEN DesOut("decode s or pubkey", NoRing, NilSig)
                  ELSE LET pubkeys == [i \in 1..size |-> EntryAt(curve, in, i).p.val]
                           s == [i \in 1..size |-> EntryAt(curve, in, i).s.val]
                       IN DesOut(NoErr,
                                 [pubkeys |-> pubkeys, curve |-> curve, hp |-> HashAll(pubkeys)],
                                 [ring |-> NilRing, c |-> c.val, s |-> s, image |-> img.val])

\* RingSig.Deserialize(curve, in): the fields to assign, or an error
Deserialize(curve, in) ==
  IF Len(in) < 4 THEN DesOut("input too short: missing size header", NoRing, NilSig)
  ELSE LET size == Uint32(SubSeq(in, 1, 4))
           ps   == CompressedPointSize(curve)
       IN IF size < 2 THEN DesOut("invalid ring size", NoRing, NilSig)
          ELSE IF size > Len(in) THEN DesOut("input too short", NoRing, NilSig)  \* as below, without overflow
          ELSE IF Len(in) < 4 + scalarLen + ps + size * (scalarLen + ps)
               THEN DesOut("input too short", NoRing, NilSig)
          ELSE LET c   == DecodeToScalar(SubSeq(in, 5, 4 + scalarLen))
                   img == DecodeToPoint(curve, SubSeq(in, 5 + scalarLen, 4 + scalarLen + ps))
               IN IF c.err THEN DesOut("decode c", NoRing, NilSig)
                  ELSE IF img.err THEN DesOut("decode image", NoRing, NilSig)
                  ELSE IF \E i \in 1..size : EntryAt(curve, in, i).s.err \/ EntryAt(curve, in, i).p.err
                       THEN DesOut("decode s or pubkey", NoRing, NilSig)
                  ELSE LET pubkeys == [i \in 1..size |-> EntryAt(curve, in, i).p.val]
                           s == [i \in 1..size |-> EntryAt(curve, in, i).s.val]
                       IN DesOut(NoErr,
                                 [pubkeys |-> pubkeys, curve |-> curve, hp |-> HashAll(pubkeys)],
                                 [ring |-> NilRing, c |-> c.val, s |-> s, image |-> img.val])

\* RingSig.Reset: every field cleared
Reset(sig) == [sig EXCEPT !.ring = NilRing, !.c = NilScalar, !.s = <<>>, !.image = NilPoint]

\* mutant of DeserializeOn: the receiver is cleared before the decoding
DeserializeOnCleared(recv, res) ==
  IF res.err = NoErr THEN res ELSE [res EXCEPT !.sig = Reset(recv)]

\* sig.Deserialize(curve, in) on the receiver recv, res being what the
\* decoding gave: the receiver's fields are assigned after the last decode,
\* every return before leaves them alone
DeserializeOn(recv, res) ==
  IF res.err = NoErr THEN res ELSE [res EXCEPT !.sig = recv]

\* ---------------------------------------------------------------- RingSig
\* Signature values other than those Sign returns, as code of the package
\* can build them from a signature sig over the ring ring: [sig, ring],
\* ring being NoRing when the value keeps the ring of sig.
MalformedKinds ==
  {"zero", "no ring", "no curve", "no c", "no image", "short s", "long s",
   "small ring", "nil s", "nil pubkey", "nil pubkey, no hp"}
Kinds == MalformedKinds \cup {"no hp"}

Fixture(kind, k, sig, ring) ==
  LET n    == Len(ring.pubkeys)
      keep == [sig |-> sig, ring |-> NoRing]
  IN CASE kind = "zero"       -> [keep EXCEPT !.sig = NilSig]
       [] kind = "no ring"    -> [keep EXCEPT !.sig.ring = NilRing]
       [] kind = "no c"       -> [keep EXCEPT !.sig.c = NilScalar]
       [] kind = "no image"   -> [keep EXCEPT !.sig.image = NilPoint]
       [] kind = "short s"    -> [keep EXCEPT !.sig.s = SubSeq(sig.s, 1, n - 1)]
       [] kind = "long s"     -> [keep EXCEPT !.sig.s = Append(sig.s, sig.s[k])]
       [] kind = "nil s"      -> [keep EXCEPT !.sig.s[k] = NilScalar]
       [] kind = "no curve"   -> [keep EXCEPT !.ring = [ring EXCEPT !.curve = NilCurve]]
       [] kind = "no hp"      -> [keep EXCEPT !.ring = [ring EXCEPT !.hp = <<>>]]
       [] kind = "nil pubkey" -> [keep EXCEPT !.ring = [ring EXCEPT !.pubkeys[k] = NilPoint]]
       [] kind = "nil pubkey, no hp" ->
            [keep EXCEPT !.ring = [ring EXCEPT !.pubkeys[k] = NilPoint, !.hp = <<>>]]
       [] kind = "small ring" ->
            [sig  |-> [sig EXCEPT !.s = SubSeq(sig.s, 1, 1)],
             ring |-> [ring EXCEPT !.pubkeys = SubSeq(ring.pubkeys, 1, 1), !.hp = SubSeq(ring.hp, 1, 1)]]

\* ---------------------------------------------------------------- actions
\* the points a caller holds: two objects for every key k*G
KeyObjs == {PointObj(<<k, copy>>, ScalarBaseMul(k)) : k \in 1..MaxSecret, copy \in 1..2}
KeyLists(n) == UNION {[1..k -> KeyObjs] : k \in 0..n}

Secrets == 0..MaxSecret

\* no call in flight; vecs and bufs are the backing arrays of the scratch
\* vectors and challenge buffers that goroutines share by address
NoCalls == [procs |-> <<>>, vecs |-> <<>>, bufs |-> <<>>]

Call(op) ==
  [op |-> op, curve |-> NilCurve, size |-> 0, x |-> 0, idx |-> 0, m |-> <<>>, keys |-> <<>>,
   rid |-> 0, sid |-> 0, sid2 |-> 0, kind |-> "", err |-> NoErr, panic |-> FALSE, val |-> FALSE]

Init ==
  /\ rings = <<>>
  /\ sigs = <<>>
  /\ wire = <<>>
  /\ oracle = <<>>
  /\ hseed \in HashSeeds
  /\ challengeBufPool = <<>>
  /\ scalarPools = [k \in 1..Len(scalarPoolCaps) |-> <<>>]
  /\ made = [rings |-> <<>>, sigs |-> <<>>]
  /\ ret = Call("init")
  /\ calls = NoCalls

\* what the history keeps of a call
Origin(call) == [op |-> call.op, x |-> call.x, idx |-> call.idx, m |-> call.m, kind |-> call.kind]

\* a session works on the object the last call returned, and signs with
\* rings of NewKeyRing
Constructors == {"NewKeyRing", "NewKeyRingFromPublicKeys", "NewFixedKeyRingFromPublicKeys"}
JustBuilt  == ret.op = "NewKeyRing" /\ ret.rid = 1
JustSigned == ret.op \in {"Sign", "RingSign"} /\ ret.sid # 0

\* a constructor returned: the ring, when there is one, joins the heap
Constructed(res, call) ==
  /\ rings' = IF res.err = NoErr /\ ~res.panic THEN Append(rings, res.ring) ELSE rings
  /\ made' = IF res.err = NoErr /\ ~res.panic
             THEN [made EXCEPT !.rings = Append(made.rings, Origin(call))] ELSE made
  /\ ret' = [call EXCEPT !.err = res.err, !.panic = res.panic,
                         !.rid = IF res.err = NoErr /\ ~res.panic THEN Len(rings) + 1 ELSE 0]
  /\ UNCHANGED <<calls, sigs, wire, oracle, hseed, challengeBufPool, scalarPools>>

DoNewKeyRing ==
  /\ ret.op = "init"
  /\ \E curve \in Curves, size \in 0..MaxSize, x \in Secrets, idx \in (0 - 1)..MaxSize :
       \E rnd \in [1..size -> RandScalars] :
         Constructed(NewKeyRing(curve, size, x, idx, rnd),
                     [Call("NewKeyRing") EXCEPT !.curve = curve, !.size = size, !.x = x, !.idx = idx])

DoNewKeyRingFromPublicKeys ==
  /\ ret.op = "init"
  /\ \E curve \in Curves, pubkeys \in KeyLists(MaxSize), x \in Secrets, idx \in (0 - 1)..(MaxSize + 1) :
       Constructed(NewKeyRingFromPublicKeys(curve, pubkeys, x, idx),
                   [Call("NewKeyRingFromPublicKeys") EXCEPT
                      !.curve = curve, !.keys = pubkeys, !.x = x, !.idx = idx])

DoNewFixedKeyRingFromPublicKeys ==
  /\ ret.op = "init"
  /\ \E curve \in Curves, pubkeys \in KeyLists(MaxSize) :
       Constructed(NewFixedKeyRingFromPublicKeys(curve, pubkeys),
                   [Call("NewFixedKeyRingFromPublicKeys") EXCEPT !.curve = curve, !.keys = pubkeys])

\* a second signer builds a ring of two, on either curve, once the first
\* has signed
DoSecondRing ==
  /\ JustSigned /\ Len(rings) = 1
  /\ \E curve \in Curves, x \in Secrets \ {0}, idx \in 0..1, other \in RandScalars :
       Constructed(NewKeyRing(curve, 2, x, idx, <<other, other>>),
                   [Call("NewKeyRing") EXCEPT !.curve = curve, !.size = 2, !.x = x, !.idx = idx])

\* Sign or Ring.Sign returned
Signed(res, call) ==
  /\ sigs' = IF res.err = NoErr /\ ~res.panic THEN Append(sigs, res.sig) ELSE sigs
  /\ made' = IF res.err = NoErr /\ ~res.panic
             THEN [made EXCEPT !.sigs = Append(made.sigs, Origin(call))] ELSE made
  /\ ret' = [call EXCEPT !.err = res.err, !.panic = res.panic,
                         !.sid = IF res.err = NoErr /\ ~res.panic THEN Len(sigs) + 1 ELSE 0]
  /\ rings' = res.w.rings
  /\ oracle' = res.w.or
  /\ challengeBufPool' = res.w.bp
  /\ scalarPools' = res.w.sp
  /\ UNCHANGED <<calls, wire, hseed>>

RandSeqs(rid) == [1..(Len(rings[rid].pubkeys) - 1) -> RandScalars]

DoRingSign ==
  /\ JustBuilt
  /\ \E rid \in {ret.rid}, m \in Msgs, x \in Secrets, u \in RandScalars :
       /\ OracleRoom(oracle, Len(rings[rid].pubkeys))
       /\ \E rs \in RandSeqs(rid) :
            Signed(RingSign(World, m, rid, x, u, rs),
                   [Call("RingSign") EXCEPT !.m = m, !.rid = rid, !.x = x])

\* the second signer signs with the ring they built
DoSecondSign ==
  /\ ret.op = "NewKeyRing" /\ ret.rid = 2
  /\ \E m \in Msgs, d \in RandScalars :
       /\ OracleRoom(oracle, Len(rings[2].pubkeys))
       /\ Signed(RingSign(World, m, 2, made.rings[2].x, d, <<d>>),
                 [Call("RingSign") EXCEPT !.m = m, !.rid = 2, !.x = made.rings[2].x])

DoSign ==
  /\ JustBuilt
  /\ \E rid \in {ret.rid}, m \in Msgs, x \in Secrets, u \in RandScalars :
       /\ OracleRoom(oracle, Len(rings[rid].pubkeys))
       /\ \E idx \in (0 - 1)..Len(rings[rid].pubkeys), rs \in RandSeqs(rid) :
            Signed(Sign(World, m, rid, x, idx, u, rs),
                   [Call("Sign") EXCEPT !.m = m, !.rid = rid, !.x = x, !.idx = idx])

\* Ring.Sign on the ring a constructor just returned, with one draw for
\* every random scalar
DoSignBuilt ==
  /\ ret.op \in Constructors /\ ret.rid # 0
  /\ \E rid \in {ret.rid}, m \in Msgs, x \in Secrets \ {0}, d \in RandScalars :
       /\ OracleRoom(oracle, Len(rings[rid].pubkeys))
       /\ Signed(RingSign(World, m, rid, x, d, [i \in 1..Len(rings[rid].pubkeys) |-> d]),
                 [Call("RingSign") EXCEPT !.m = m, !.rid = rid, !.x = x])

\* sig.Reset() on the signature just made
DoReset ==
  /\ JustSigned
  /\ \E sid \in {ret.sid} :
       /\ sigs' = [sigs EXCEPT ![sid] = Reset(sigs[sid])]
       /\ made' = [made EXCEPT !.sigs[sid].kind = "reset"]
       /\ ret' = [Call("Reset") EXCEPT !.sid = sid, !.kind = "reset"]
  /\ UNCHANGED <<calls, rings, wire, oracle, hseed, challengeBufPool, scalarPools>>

\* a signature value built from the signature just made
DoMalform ==
  /\ JustSigned
  /\ \E sid \in {ret.sid}, kind \in Kinds :
       \E k \in 1..Len(sigs[sid].s) :
         LET fx   == Fixture(kind, k, sigs[sid], rings[sigs[sid].ring])
             own  == fx.ring # NoRing
             call == [Call("Malform") EXCEPT !.kind = kind, !.idx = k - 1, !.m = made.sigs[sid].m,
                                             !.sid = Len(sigs) + 1, !.sid2 = sid]
         IN /\ rings' = IF own THEN Append(rings, fx.ring) ELSE rings
            /\ sigs' = Append(sigs, IF own THEN [fx.sig EXCEPT !.ring = Len(rings) + 1] ELSE fx.sig)
            /\ made' = [rings |-> IF own THEN Append(made.rings, Origin(call)) ELSE made.rings,
                        sigs  |-> Append(made.sigs, Origin(call))]
            /\ ret' = call
  /\ UNCHANGED <<calls, wire, oracle, hseed, challengeBufPool, scalarPools>>

\* Verify returned
Verified(res, sid, m) ==
  /\ ret' = [Call("Verify") EXCEPT !.sid = sid, !.m = m, !.val = res.val, !.panic = res.panic]
  /\ rings' = res.w.rings
  /\ oracle' = res.w.or
  /\ challengeBufPool' = res.w.bp
  /\ scalarPools' = res.w.sp
  /\ UNCHANGED <<calls, sigs, wire, hseed, made>>

\* sig.Verify(m) on the signature the last call made
DoVerify ==
  /\ ret.op \in {"Sign", "RingSign", "Deserialize", "Reset", "Malform"} /\ ret.sid # 0
  /\ \E sid \in {ret.sid}, m \in Msgs :
       /\ OracleRoom(oracle, Len(sigs[sid].s))
       /\ Verified(Verify(World, sigs[sid], m), sid, m)

\* Link(sigA, sigB) on the two signatures of the session
DoLink ==
  /\ JustSigned /\ Len(sigs) = 2
  /\ \E a \in 1..2 :
       LET res == Link(World, sigs[a], sigs[3 - a])
       IN ret' = [Call("Link") EXCEPT !.sid = a, !.sid2 = 3 - a, !.val = res.val, !.panic = res.panic]
  /\ UNCHANGED <<calls, rings, sigs, wire, oracle, hseed, challengeBufPool, scalarPools, made>>

\* a signature that Serialize can read: ring, c, image and every s[i] set
Complete(sig) ==
  /\ sig.ring # NilRing /\ sig.c # NilScalar /\ sig.image # NilPoint
  /\ Len(sig.s) >= Len(rings[sig.ring].pubkeys)
  /\ \A i \in 1..Len(rings[sig.ring].pubkeys) :
       sig.s[i] # NilScalar /\ rings[sig.ring].pubkeys[i] # NilPoint

DoSerialize ==
  /\ JustSigned
  /\ \E sid \in {ret.sid} :
       /\ Complete(sigs[sid])
       /\ wire' = Serialize(World, sigs[sid])
       /\ ret' = [Call("Serialize") EXCEPT !.sid = sid]
  /\ UNCHANGED <<calls, rings, sigs, oracle, hseed, challengeBufPool, scalarPools, made>>

\* Deserialize returned: on success the receiver holds the decoded fields
\* and a ring of its own, on an error it is left as it was
Deserialized(res, curve, sid) ==
  LET ok   == res.err = NoErr
      call == [Call("Deserialize") EXCEPT !.curve = curve, !.sid2 = sid, !.err = res.err,
                                          !.m = made.sigs[sid].m]
  IN /\ rings' = IF ok THEN Append(rings, res.ring) ELSE rings
     /\ sigs' = Append(sigs, IF ok THEN [res.sig EXCEPT !.ring = Len(rings) + 1] ELSE NilSig)
     /\ made' = [rings |-> IF ok THEN Append(made.rings, Origin(call)) ELSE made.rings,
                 sigs  |-> Append(made.sigs, Origin(call))]
     /\ ret' = [call EXCEPT !.sid = Len(sigs) + 1]
     /\ UNCHANGED <<calls, wire, oracle, hseed, challengeBufPool, scalarPools>>

\* new(RingSig).Deserialize(curve, wire)
DoDeserialize ==
  /\ ret.op = "Serialize"
  /\ \E curve \in Curves, sid \in {ret.sid} :
       Deserialized(Deserialize(curve, wire), curve, sid)

\* an element of the small subgroup of Ed25519
Torsion(k) == [v |-> Identity.v, t |-> k % Cofactor]

\* byte strings a caller can hand to Deserialize, made from the bytes w of
\* a signature: cut short, extended, with another size in the header, or
\* with the image moved by an element of the small subgroup
TamperKinds == {"header cut", "cut", "extra", "size", "huge size", "torsion"}
TamperSteps == 0..3

Tamper(kind, k, w, curve, image) ==
  CASE kind = "header cut" -> SubSeq(w, 1, k)
    [] kind = "cut"        -> SubSeq(w, 1, Len(w) - 1 - k)
    [] kind = "extra"      -> w \o Zeros(k + 1)
    [] kind = "size"       -> PutUint32(k) \o SubSeq(w, 5, Len(w))
    [] kind = "huge size"  -> <<255 - k, 255, 255, 255>> \o SubSeq(w, 5, Len(w))
    [] kind = "torsion"    ->
         SubSeq(w, 1, 4 + scalarLen)
           \o PointEncode(curve, PointAdd(image, Torsion(k + 1)))
           \o SubSeq(w, 5 + scalarLen + CompressedPointSize(curve), Len(w))

\* the caller changes the bytes Serialize returned
DoTamper ==
  /\ ret.op = "Serialize"
  /\ \E sid \in {ret.sid}, kind \in TamperKinds, k \in TamperSteps :
       /\ kind = "torsion" => rings[sigs[sid].ring].curve = "ed25519"
       /\ wire' = Tamper(kind, k, wire, rings[sigs[sid].ring].curve, sigs[sid].image)
       /\ ret' = [Call("Tamper") EXCEPT !.sid = sid, !.kind = kind, !.idx = k]
  /\ UNCHANGED <<calls, rings, sigs, oracle, hseed, challengeBufPool, scalarPools, made>>

\* new(RingSig).Deserialize(curve, wire) on the changed bytes
DoDeserializeTampered ==
  /\ ret.op = "Tamper"
  /\ \E curve \in Curves, sid \in {ret.sid} :
       Deserialized(Deserialize(curve, wire), curve, sid)

\* Link on a signature and the one deserialized from its bytes
DoLinkDecoded ==
  /\ ret.op = "Deserialize" /\ ret.err = NoErr
  /\ \E pair \in {<<ret.sid, ret.sid2>>, <<ret.sid2, ret.sid>>} :
       LET res == Link(World, sigs[pair[1]], sigs[pair[2]])
       IN ret' = [Call("Link") EXCEPT !.sid = pair[1], !.sid2 = pair[2],
                                      !.val = res.val, !.panic = res.panic]
  /\ UNCHANGED <<calls, rings, sigs, wire, oracle, hseed, challengeBufPool, scalarPools, made>>

\* a second ring made, on either curve, of copies of keys of the first:
\* all of them or some, in any order, a key more than once
DoRingFromKeys ==
  /\ JustBuilt /\ Len(rings) = 1
  /\ \E curve \in Curves, k \in 0..Len(rings[1].pubkeys) :
       \E f \in [1..k -> 1..Len(rings[1].pubkeys)] :
         LET keys == [i \in 1..k |-> PointObj(<<i, 1>>, rings[1].pubkeys[f[i]])]
         IN Constructed(NewFixedKeyRingFromPublicKeys(curve, keys),
                        [Call("NewFixedKeyRingFromPublicKeys") EXCEPT !.curve = curve, !.keys = keys])

\* r.Equals(other) on the two rings, either way round; rid is r and idx
\* is other
DoEquals ==
  /\ ret.op = "NewFixedKeyRingFromPublicKeys" /\ ret.rid = 2
  /\ \E a \in 1..2 :
       ret' = [Call("Equals") EXCEPT !.rid = a, !.idx = 3 - a,
                                     !.val = RingEquals(rings[a], rings[3 - a])]
  /\ UNCHANGED <<calls, rings, sigs, wire, oracle, hseed, challengeBufPool, scalarPools, made>>

\* ------------------------------------------------- scratch vectors alone
\* getScalarScratch and putScalarScratch as Sign and Verify call them for
\* rings of every size: up to the largest bucket and beyond it
MaxScratch == 257         \* largest length asked of getScalarScratch

ScratchSizes ==
  {n \in 1..MaxScratch :
     n <= 2 \/ \E i \in 1..Len(scalarPoolCaps) : n \in {scalarPoolCaps[i], scalarPoolCaps[i] + 1}}

\* a call of getScalarScratch or putScalarScratch: arr is the backing
\* array of the slice the caller holds, size its length
ScratchCall(op, n, arr) == [op |-> op, size |-> n, arr |-> arr]

\* c := getScalarScratch(n)
DoGetScratch ==
  /\ ret.op \in {"init", "putScalarScratch"}
  /\ \E n \in ScratchSizes :
       LET got == getScalarScratch(scalarPools, n)
       IN /\ scalarPools' = got.sp
          /\ ret' = ScratchCall("getScalarScratch", n, got.arr)
  /\ UNCHANGED <<calls, rings, sigs, wire, oracle, hseed, challengeBufPool, made>>

\* the caller writes its challenges into c[0..n-1], or into the first of
\* them before it fails
DoFillScratch ==
  /\ ret.op = "getScalarScratch"
  /\ \E upto \in {1, ret.size}, g \in {1, Order - 1} :
       ret' = ScratchCall("fill", ret.size,
                          [i \in 1..Len(ret.arr) |-> IF i <= upto THEN g ELSE ret.arr[i]])
  /\ UNCHANGED <<calls, rings, sigs, wire, oracle, hseed, challengeBufPool, scalarPools, made>>

\* the deferred putScalarScratch(c)
DoPutScratch ==
  /\ ret.op \in {"getScalarScratch", "fill"}
  /\ scalarPools' = putScalarScratch(scalarPools, ret.arr, ret.size)
  /\ ret' = ScratchCall("putScalarScratch", ret.size, ret.arr)
  /\ UNCHANGED <<calls, rings, sigs, wire, oracle, hseed, challengeBufPool, made>>

\* ------------------------------------------------------------ repeated calls
MaxSigs == 3              \* signatures of one session of repeated calls

\* sig.Verify(m) once more on the signature just verified
DoVerifyAgain ==
  /\ ret.op = "Verify"
  /\ \E sid \in {ret.sid}, m \in Msgs :
       LET res == Verify(World, sigs[sid], m)
       IN /\ OracleRoom(oracle, Len(sigs[sid].s))
          /\ ret' = [Call("Verify") EXCEPT !.sid = sid, !.m = m, !.val = res.val,
                                           !.panic = res.panic, !.kind = "again"]
          /\ rings' = res.w.rings
          /\ oracle' = res.w.or
          /\ challengeBufPool' = res.w.bp
          /\ scalarPools' = res.w.sp
  /\ UNCHANGED <<calls, sigs, wire, hseed, made>>

\* Ring.Sign(m, x) on the ring of a signature verified twice and found
\* valid, for the same message, with a secret of the ring or not
DoSignAfter ==
  /\ ret.op = "Verify" /\ ret.kind = "again" /\ ret.val
  /\ Len(sigs) < MaxSigs /\ sigs[ret.sid].ring # NilRing
  /\ \E rid \in {sigs[ret.sid].ring}, m \in {ret.m}, x \in Secrets \ {0}, d \in {MaxSecret} :
       /\ OracleRoom(oracle, Len(rings[rid].pubkeys))
       /\ Signed(RingSign(World, m, rid, x, d, [i \in 1..Len(rings[rid].pubkeys) |-> d]),
                 [Call("RingSign") EXCEPT !.m = m, !.rid = rid, !.x = x])

\* ------------------------------------------------------- concurrent calls
\* Goroutines that call Sign and Verify at the same time.  A step of a call
\* is one access to memory that goroutines share: a Get or a Put of a
\* sync.Pool, a write to a pooled backing array, a read of it.  Here the
\* pools hold addresses; calls.vecs and calls.bufs give what is stored at
\* an address.
MaxCalls == 3             \* calls started in one session

NoOut == [err |-> NoErr, panic |-> FALSE, val |-> FALSE, sig |-> NilSig]

\* a call and its local variables: vec is the address of the scratch c,
\* buf of the challenge buffer, 0 when it holds none; l, r and cc are the
\* arguments and the result of the challenge under way, next the slot of c
\* the result goes to
NewCall(op) ==
  [op |-> op, pc |-> "enter", m |-> <<>>, rid |-> 0, sid |-> 0, x |-> 0, idx |-> 0,
   u |-> 0, rs |-> <<>>, vec |-> 0, buf |-> 0, i |-> 0, next |-> 0,
   l |-> NilPoint, r |-> NilPoint, cc |-> NilScalar, s |-> <<>>, after |-> "", out |-> NoOut]

\* the call returns: nothing more to run
Return(p, out) == [p EXCEPT !.pc = "done", !.out = out]

\* getScalarScratch on pools of addresses: the address of the vector, the
\* pools and the heap left
getScalarScratchAt(sp, vecs, n) ==
  LET k     == Bucket(n)
      fresh == Len(vecs) + 1
  IN IF k = 0 THEN [vec |-> fresh, sp |-> sp, vecs |-> Append(vecs, NilScalars(n))]
     ELSE LET got == PoolGet(sp[k], 0)
              rem == [sp EXCEPT ![k] = got.rest]
          IN IF got.item = 0
             THEN [vec |-> fresh, sp |-> rem, vecs |-> Append(vecs, NilScalars(scalarPoolCaps[k]))]
             ELSE IF Len(vecs[got.item]) < n
             THEN [vec |-> fresh, sp |-> rem, vecs |-> Append(vecs, NilScalars(n))]
             ELSE [vec |-> got.item, sp |-> rem, vecs |-> vecs]

\* putScalarScratch(b) on pools of addresses, b = vecs[vec][:n]
putScalarScratchAt(sp, vecs, vec, n) ==
  LET capb    == Len(vecs[vec])
      cleared == [i \in 1..capb |-> IF i <= n THEN NilScalar ELSE vecs[vec][i]]
      k       == IF \E i \in 1..Len(scalarPoolCaps) : capb = scalarPoolCaps[i]
                 THEN CHOOSE i \in 1..Len(scalarPoolCaps) : capb = scalarPoolCaps[i]
                 ELSE 0
  IN [vecs |-> [vecs EXCEPT ![vec] = cleared],
      sp   |-> IF k = 0 THEN sp ELSE [sp EXCEPT ![k] = PoolPut(sp[k], vec)]]

\* challengeBufPool.Get() and the check of the capacity: the address of
\* the buffer of the challenge, the pool and the heap left
challengeGet(bp, bufs, need) ==
  LET got   == PoolGet(bp, 0)
      fresh == Len(bufs) + 1
  IN IF got.item = 0
     THEN [buf |-> fresh, bp |-> got.rest, bufs |-> Append(bufs, NewChallengeBuf)]
     ELSE IF Len(bufs[got.item]) < need
     THEN [buf |-> fresh, bp |-> got.rest, bufs |-> Append(bufs, Zeros(need))]
     ELSE [buf |-> got.item, bp |-> got.rest, bufs |-> bufs]

ChallengeNeed(curve) == MsgLen + 2 * CompressedPointSize(curve)

\* the call p enters challenge(curve, m, l, r), whose result goes to
\* c[next]; after tells where the call goes on from
EnterChallenge(p, proc, curve, l, r, next, after) ==
  LET got == challengeGet(challengeBufPool, calls.bufs, ChallengeNeed(curve))
  IN /\ challengeBufPool' = got.bp
     /\ calls' = [calls EXCEPT !.bufs = got.bufs,
                               !.procs[p] = [proc EXCEPT !.pc = "write", !.buf = got.buf, !.l = l,
                                                         !.r = r, !.next = next, !.after = after]]

\* a session of concurrent calls works on a ring of NewKeyRing made with
\* the secret 1, whose other keys are not the identity
Concurrent ==
  /\ ret.op = "NewKeyRing" /\ ret.rid = 1 /\ ret.x = 1
  /\ \A i \in 1..Len(rings[1].pubkeys) : rings[1].pubkeys[i] # Identity

\* room in the oracle for the inputs of the calls in flight and of one more
RoomForCall ==
  OracleRoom(oracle,
             Len(rings[1].pubkeys)
               * (1 + Cardinality({p \in 1..Len(calls.procs) : calls.procs[p].pc # "done"})))

\* the calls of a session: a first call of Sign makes a signature, the
\* calls that follow are started together and run at the same time
MayCall ==
  /\ Concurrent /\ Len(calls.procs) < MaxCalls /\ RoomForCall
  /\ calls.procs # <<>> =>
       /\ calls.procs[1].pc = "done"
       /\ \A p \in 2..Len(calls.procs) : calls.procs[p].pc = "enter"

\* a goroutine calls Sign(m, ring, x, idx) with the secret and the index
\* the ring was built with
CallSign ==
  /\ MayCall
  /\ \E m \in Msgs, d \in {MaxSecret} :
       calls' = [calls EXCEPT !.procs =
                   Append(@, [NewCall("Sign") EXCEPT
                                !.m = m, !.rid = 1, !.x = made.rings[1].x, !.idx = made.rings[1].idx,
                                !.u = d, !.rs = [i \in 1..Len(rings[1].pubkeys) |-> d]])]
  /\ UNCHANGED <<rings, sigs, wire, oracle, hseed, challengeBufPool, scalarPools, made, ret>>

\* a goroutine calls Verify(m) on the signature the first call returned
CallVerify ==
  /\ MayCall /\ sigs # <<>>
  /\ \E sid \in {1}, m \in Msgs :
       calls' = [calls EXCEPT !.procs =
                   Append(@, [NewCall("Verify") EXCEPT !.m = m, !.sid = sid, !.rid = sigs[sid].ring])]
  /\ UNCHANGED <<rings, sigs, wire, oracle, hseed, challengeBufPool, scalarPools, made, ret>>

\* Sign up to "c := getScalarScratch(size)": the checks of the arguments
SignEnter ==
  \E p \in 1..Len(calls.procs) :
    LET proc == calls.procs[p]
        ring == rings[proc.rid]
        size == Len(ring.pubkeys)
        fail == IF size < 2 THEN "size of ring less than two"
                ELSE IF proc.idx >= size THEN "secret index out of range of ring size"
                ELSE IF IsZero(proc.x) THEN "private key is zero"
                ELSE IF proc.idx < 0 THEN "panic"
                ELSE IF ring.pubkeys[proc.idx + 1] = NilPoint THEN "panic"
                ELSE IF ~PointEquals(ring.pubkeys[proc.idx + 1], ScalarBaseMul(proc.x))
                THEN "secret index in ring is not signer"
                ELSE NoErr
        got  == getScalarScratchAt(scalarPools, calls.vecs, size)
    IN /\ proc.op = "Sign" /\ proc.pc = "enter"
       /\ IF fail # NoErr
          THEN /\ calls' = [calls EXCEPT !.procs[p] =
                              Return(proc, [NoOut EXCEPT !.err = IF fail = "panic" THEN NoErr ELSE fail,
                                                         !.panic = fail = "panic"])]
               /\ UNCHANGED scalarPools
          ELSE /\ scalarPools' = got.sp
               /\ calls' = [calls EXCEPT !.vecs = got.vecs,
                                         !.procs[p] = [proc EXCEPT !.pc = "first", !.vec = got.vec,
                                                                   !.s = NilScalars(size)]]
       /\ UNCHANGED <<rings, sigs, wire, oracle, hseed, challengeBufPool, made, ret>>

\* what Sign set up before the loop
Setup(proc) == SignSetup(proc.m, proc.rid, rings[proc.rid], proc.x, proc.idx, proc.u)

\* Sign: c[(ourIdx+1) % size] = challenge(ring.curve, m, l, r) is entered
SignFirst ==
  \E p \in 1..Len(calls.procs) :
    LET proc == calls.procs[p]
        k    == Setup(proc)
    IN /\ proc.op = "Sign" /\ proc.pc = "first"
       /\ EnterChallenge(p, proc, k.curve, k.l, k.r, ((proc.idx + 1) % k.size) + 1, "loop")
       /\ UNCHANGED <<rings, sigs, wire, oracle, hseed, scalarPools, made, ret>>

\* challenge: the message, L and R are written into the buffer
ChallengeWrite ==
  \E p \in 1..Len(calls.procs) :
    LET proc  == calls.procs[p]
        curve == rings[proc.rid].curve
    IN /\ proc.pc = "write"
       /\ calls' = [calls EXCEPT
                      !.bufs[proc.buf] = challengeFill(curve, proc.m, proc.l, proc.r, @,
                                                       CompressedPointSize(curve)),
                      !.procs[p].pc = "hash"]
       /\ UNCHANGED <<rings, sigs, wire, oracle, hseed, challengeBufPool, scalarPools, made, ret>>

\* challenge: the buffer is hashed and put back into the pool
ChallengeHash ==
  \E p \in 1..Len(calls.procs) :
    LET proc == calls.procs[p]
        h    == HashToScalar(oracle, SubSeq(calls.bufs[proc.buf], 1,
                                            ChallengeNeed(rings[proc.rid].curve)))
    IN /\ proc.pc = "hash"
       /\ oracle' = h.or
       /\ challengeBufPool' = PoolPut(challengeBufPool, proc.buf)
       /\ calls' = [calls EXCEPT !.procs[p] = [proc EXCEPT !.pc = proc.after, !.buf = 0, !.cc = h.c]]
       /\ UNCHANGED <<rings, sigs, wire, hseed, scalarPools, made, ret>>

\* Sign: the challenge is stored in c, and the loop "for i := 1; i < size;
\* i++" goes on or ends
SignAssign ==
  \E p \in 1..Len(calls.procs) :
    LET proc == calls.procs[p]
    IN /\ proc.op = "Sign" /\ proc.pc = "loop"
       /\ calls' = [calls EXCEPT
                      !.vecs[proc.vec][proc.next] = proc.cc,
                      !.procs[p] = [proc EXCEPT !.i = proc.i + 1,
                                                !.pc = IF proc.i + 1 < Len(rings[proc.rid].pubkeys)
                                                       THEN "iter" ELSE "close"]]
       /\ UNCHANGED <<rings, sigs, wire, oracle, hseed, challengeBufPool, scalarPools, made, ret>>

\* Sign: one iteration of the loop up to its call of challenge
SignIterate ==
  \E p \in 1..Len(calls.procs) :
    LET proc == calls.procs[p]
        ring == rings[proc.rid]
        size == Len(ring.pubkeys)
        idx  == (proc.idx + proc.i) % size
        si   == NewRandomScalar(proc.rs[proc.i])
        ci   == calls.vecs[proc.vec][idx + 1]
    IN /\ proc.op = "Sign" /\ proc.pc = "iter"
       /\ IF ring.pubkeys[idx + 1] = NilPoint
          THEN /\ calls' = [calls EXCEPT !.procs[p] =
                              [proc EXCEPT !.pc = "return", !.out.err = "no public key at index"]]
               /\ UNCHANGED challengeBufPool
          ELSE IF ci = NilScalar \/ ring.hp[idx + 1] = NilPoint
          THEN /\ calls' = [calls EXCEPT !.procs[p] = [proc EXCEPT !.pc = "return", !.out.panic = TRUE]]
               /\ UNCHANGED challengeBufPool
          ELSE EnterChallenge(p, [proc EXCEPT !.s[idx + 1] = si], ring.curve,
                              LPoint(ci, si, ring.pubkeys[idx + 1]),
                              RPoint(ci, si, ring.hp[idx + 1], Setup(proc).image),
                              ((idx + 1) % size) + 1, "loop")
       /\ UNCHANGED <<rings, sigs, wire, oracle, hseed, scalarPools, made, ret>>

\* Sign: s[ourIdx] = u - c[ourIdx]*x, the two checks of the closed ring,
\* and the call of challenge for cCheck
SignCloseRing ==
  \E p \in 1..Len(calls.procs) :
    LET proc == calls.procs[p]
        k    == Setup(proc)
        cj   == calls.vecs[proc.vec][proc.idx + 1]
        sj   == CloseRing(k.u, cj, proc.x)
    IN /\ proc.op = "Sign" /\ proc.pc = "close"
       /\ IF cj = NilScalar
          THEN /\ calls' = [calls EXCEPT !.procs[p] = [proc EXCEPT !.pc = "return", !.out.panic = TRUE]]
               /\ UNCHANGED challengeBufPool
          ELSE IF ~PointEquals(LPoint(cj, sj, k.pubkey), k.l)
          THEN /\ calls' = [calls EXCEPT !.procs[p] =
                              [proc EXCEPT !.pc = "return",
                                           !.out.err = "failed to close ring: uG != sG + cP"]]
               /\ UNCHANGED challengeBufPool
          ELSE IF ~PointEquals(RPoint(cj, sj, k.h, k.image), k.r)
          THEN /\ calls' = [calls EXCEPT !.procs[p] =
                              [proc EXCEPT !.pc = "return",
                                           !.out.err = "failed to close ring: uH(P) != sH(P) + cI"]]
               /\ UNCHANGED challengeBufPool
          ELSE EnterChallenge(p, [proc EXCEPT !.s[proc.idx + 1] = sj], k.curve, k.l, k.r, 0, "check")
       /\ UNCHANGED <<rings, sigs, wire, oracle, hseed, scalarPools, made, ret>>

\* Sign: cCheck compared with c[(ourIdx+1) % size], and sig.c = c[0]
SignCompare ==
  \E p \in 1..Len(calls.procs) :
    LET proc == calls.procs[p]
        c    == calls.vecs[proc.vec]
        size == Len(rings[proc.rid].pubkeys)
    IN /\ proc.op = "Sign" /\ proc.pc = "check"
       /\ calls' = [calls EXCEPT !.procs[p] =
                      IF ~ScEq(proc.cc, c[((proc.idx + 1) % size) + 1])
                      THEN [proc EXCEPT !.pc = "return", !.out.err = "challenge check failed"]
                      ELSE [proc EXCEPT !.pc = "return",
                                        !.out.sig = [ring |-> proc.rid, c |-> c[1], s |-> proc.s,
                                                     image |-> Setup(proc).image]]]
       /\ UNCHANGED <<rings, sigs, wire, oracle, hseed, challengeBufPool, scalarPools, made, ret>>

\* Sign returns: the deferred putScalarScratch(c); the caller keeps the
\* signature
SignDone ==
  \E p \in 1..Len(calls.procs) :
    LET proc == calls.procs[p]
        put  == putScalarScratchAt(scalarPools, calls.vecs, proc.vec, Len(rings[proc.rid].pubkeys))
        ok   == proc.out.err = NoErr /\ ~proc.out.panic
    IN /\ proc.op = "Sign" /\ proc.pc = "return"
       /\ scalarPools' = put.sp
       /\ calls' = [calls EXCEPT !.vecs = put.vecs,
                                 !.procs[p] = [proc EXCEPT !.pc = "done", !.vec = 0,
                                                           !.sid = IF ok THEN Len(sigs) + 1 ELSE 0]]
       /\ sigs' = IF ok THEN Append(sigs, proc.out.sig) ELSE sigs
       /\ made' = IF ok
                  THEN [made EXCEPT !.sigs = Append(made.sigs,
                          Origin([Call("Sign") EXCEPT !.x = proc.x, !.idx = proc.idx, !.m = proc.m]))]
                  ELSE made
       /\ UNCHANGED <<rings, wire, oracle, hseed, challengeBufPool, ret>>

\* Verify up to "c := getScalarScratch(size)": the guards and ensureHP
VerifyEnter ==
  \E p \in 1..Len(calls.procs) :
    LET proc == calls.procs[p]
        sig  == sigs[proc.sid]
    IN /\ proc.op = "Verify" /\ proc.pc = "enter"
       /\ IF sig.ring = NilRing
          THEN /\ calls' = [calls EXCEPT !.procs[p] = Return(proc, NoOut)]
               /\ UNCHANGED <<rings, scalarPools>>
          ELSE LET ring == rings[sig.ring]
                   size == Len(ring.pubkeys)
                   e    == ensureHP(ring)
                   got  == getScalarScratchAt(scalarPools, calls.vecs, size)
               IN IF size < 2 \/ Len(sig.s) # size \/ sig.c = NilScalar
                     \/ sig.image = NilPoint \/ ring.curve = NilCurve \/ e.err
                  THEN /\ calls' = [calls EXCEPT !.procs[p] = Return(proc, NoOut)]
                       /\ UNCHANGED <<rings, scalarPools>>
                  ELSE /\ rings' = [rings EXCEPT ![sig.ring] = e.ring]
                       /\ scalarPools' = got.sp
                       /\ calls' = [calls EXCEPT !.vecs = got.vecs,
                                                 !.procs[p] = [proc EXCEPT !.pc = "first", !.vec = got.vec]]
       /\ UNCHANGED <<sigs, wire, oracle, hseed, challengeBufPool, made, ret>>

\* Verify: c[0] = sig.c
VerifyFirst ==
  \E p \in 1..Len(calls.procs) :
    LET proc == calls.procs[p]
    IN /\ proc.op = "Verify" /\ proc.pc = "first"
       /\ calls' = [calls EXCEPT !.vecs[proc.vec][1] = sigs[proc.sid].c,
                                 !.procs[p].pc = "iter"]
       /\ UNCHANGED <<rings, sigs, wire, oracle, hseed, challengeBufPool, scalarPools, made, ret>>

\* Verify: one iteration of the loop "for i := 0; i < size; i++" up to its
\* call of challenge
VerifyIterate ==
  \E p \in 1..Len(calls.procs) :
    LET proc == calls.procs[p]
        sig  == sigs[proc.sid]
        ring == rings[sig.ring]
        i    == proc.i
        ci   == calls.vecs[proc.vec][i + 1]
    IN /\ proc.op = "Verify" /\ proc.pc = "iter"
       /\ IF ci = NilScalar \/ ring.pubkeys[i + 1] = NilPoint
             \/ sig.s[i + 1] = NilScalar \/ ring.hp[i + 1] = NilPoint
          THEN /\ calls' = [calls EXCEPT !.procs[p] = [proc EXCEPT !.pc = "return", !.out.panic = TRUE]]
               /\ UNCHANGED challengeBufPool
          ELSE EnterChallenge(p, proc, ring.curve,
                              LPoint(ci, sig.s[i + 1], ring.pubkeys[i + 1]),
                              RPoint(ci, sig.s[i + 1], ring.hp[i + 1], sig.image),
                              IF i = Len(ring.pubkeys) - 1 THEN 1 ELSE i + 2, "loop")
       /\ UNCHANGED <<rings, sigs, wire, oracle, hseed, scalarPools, made, ret>>

\* Verify: the challenge is stored in c, and the loop goes on or ends
VerifyAssign ==
  \E p \in 1..Len(calls.procs) :
    LET proc == calls.procs[p]
    IN /\ proc.op = "Verify" /\ proc.pc = "loop"
       /\ calls' = [calls EXCEPT
                      !.vecs[proc.vec][proc.next] = proc.cc,
                      !.procs[p] = [proc EXCEPT !.i = proc.i + 1,
                                                !.pc = IF proc.i + 1 < Len(rings[proc.rid].pubkeys)
                                                       THEN "iter" ELSE "return"]]
       /\ UNCHANGED <<rings, sigs, wire, oracle, hseed, challengeBufPool, scalarPools, made, ret>>

\* Verify returns sig.c.Eq(c[0]); the deferred putScalarScratch(c)
VerifyDone ==
  \E p \in 1..Len(calls.procs) :
    LET proc == calls.procs[p]
        put  == putScalarScratchAt(scalarPools, calls.vecs, proc.vec, Len(rings[proc.rid].pubkeys))
    IN /\ proc.op = "Verify" /\ proc.pc = "return"
       /\ scalarPools' = put.sp
       /\ calls' = [calls EXCEPT
                      !.vecs = put.vecs,
                      !.procs[p] = [proc EXCEPT
                                      !.pc = "done", !.vec = 0,
                                      !.out.val = ~proc.out.panic
                                                  /\ ScEq(sigs[proc.sid].c, calls.vecs[proc.vec][1])]]
       /\ UNCHANGED <<rings, sigs, wire, oracle, hseed, challengeBufPool, made, ret>>

\* ----------------------------------------- Deserialize into a signature
\* sig.Deserialize(curve, wire) on a signature object of the session: one
\* that Sign returned or an earlier Deserialize filled or left empty
DoDeserializeInto ==
  /\ ret.op \in {"Serialize", "Tamper", "Deserialize"}
  /\ \E curve \in Curves, sid \in 1..Len(sigs) :
       LET res  == DeserializeOn(sigs[sid], Deserialize(curve, wire))
           ok   == res.err = NoErr
           call == [Call("DeserializeInto") EXCEPT !.curve = curve, !.sid = sid, !.err = res.err,
                                                   !.m = made.sigs[sid].m]
       IN /\ rings' = IF ok THEN Append(rings, res.ring) ELSE rings
          /\ sigs' = [sigs EXCEPT ![sid] = IF ok THEN [res.sig EXCEPT !.ring = Len(rings) + 1]
                                                  ELSE res.sig]
          /\ made' = IF ok THEN [rings |-> Append(made.rings, Origin(call)),
                                 sigs  |-> [made.sigs EXCEPT ![sid] = Origin(call)]]
                     ELSE made
          /\ ret' = call
  /\ UNCHANGED <<calls, wire, oracle, hseed, challengeBufPool, scalarPools>>

\* ------------------------------------------- hashToCurve on ecdsa keys
\* "const safety = 128"
safety == 128

\* hashToCurve(pk *ecdsa.PublicKey) at the head of its loop: i attempts
\* made, the digest rehashed `hashes` times since sha3(compressedKey)
hashToCurveEnter(x) ==
  [Call("hashToCurve") EXCEPT !.x = x, !.kind = "loop", !.idx = 0, !.size = 0]

\* mutant of hashToCurveStep: after the last attempt the candidate is
\* returned as it is
hashToCurveStepAnyway(st, ok) ==
  IF st.idx >= safety \/ ok THEN [st EXCEPT !.kind = "return", !.val = TRUE,
                                            !.idx = IF st.idx >= safety THEN st.idx ELSE st.idx + 1]
  ELSE [st EXCEPT !.idx = st.idx + 1, !.size = st.size + 1]

\* one turn of "for i := 0; i < safety; i++": DecompressY on the candidate
\* says ok or not; a candidate that is the x of a point is returned, any
\* other is rehashed; "return nil" after the loop
hashToCurveStep(st, ok) ==
  IF st.idx >= safety THEN [st EXCEPT !.kind = "return", !.val = FALSE]
  ELSE IF ok THEN [st EXCEPT !.kind = "return", !.val = TRUE, !.idx = st.idx + 1]
  ELSE [st EXCEPT !.idx = st.idx + 1, !.size = st.size + 1]

\* genKeyImage after "ge1 := hashToCurve(pubkey)": ge1.X on a nil ge1 is a
\* nil dereference, else the image is returned
genKeyImage(st) ==
  [st EXCEPT !.op = "genKeyImage", !.panic = ~st.val]

\* genKeyImage(privkey) called: hashToCurve is entered with the public key
DoGenKeyImage ==
  /\ ret.op = "init"
  /\ \E x \in Secrets \ {0} : ret' = hashToCurveEnter(x)
  /\ UNCHANGED <<calls, rings, sigs, wire, oracle, hseed, challengeBufPool, scalarPools, made>>

\* whether the digest at hand is the x of a point of the curve is for
\* sha3 and the curve to say
DoHashToCurveStep ==
  /\ ret.op = "hashToCurve" /\ ret.kind = "loop"
  /\ \E ok \in BOOLEAN : ret' = hashToCurveStep(ret, ok)
  /\ UNCHANGED <<calls, rings, sigs, wire, oracle, hseed, challengeBufPool, scalarPools, made>>

DoGenKeyImageReturn ==
  /\ ret.op = "hashToCurve" /\ ret.kind = "return"
  /\ ret' = genKeyImage(ret)
  /\ UNCHANGED <<calls, rings, sigs, wire, oracle, hseed, challengeBufPool, scalarPools, made>>

\* ---------------------------------------------------------- specifications
\* Sign, Verify and the wire format on rings of NewKeyRing
Next ==
  \/ DoNewKeyRing
  \/ DoRingSign
  \/ DoSign
  \/ DoVerify
  \/ DoSerialize
  \/ DoDeserialize

Spec == Init /\ [][Next]_vars

\* the three constructors, and Sign on the ring built
NextRing ==
  \/ DoNewKeyRing
  \/ DoNewKeyRingFromPublicKeys
  \/ DoNewFixedKeyRingFromPublicKeys
  \/ DoSign

SpecRing == Init /\ [][NextRing]_vars

\* Verify on signature values of every shape
NextVerify ==
  \/ DoNewKeyRing
  \/ DoRingSign
  \/ DoReset
  \/ DoMalform
  \/ DoVerify

SpecVerify == Init /\ [][NextVerify]_vars

\* two signers and Link
NextLink ==
  \/ DoNewKeyRing
  \/ DoRingSign
  \/ DoSecondRing
  \/ DoSecondSign
  \/ DoLink

InitLink == Init /\ hseed = 0

SpecLink == InitLink /\ [][NextLink]_vars

\* rings of every constructor and of Deserialize, signed and verified
NextHP ==
  \/ DoNewKeyRing
  \/ DoNewKeyRingFromPublicKeys
  \/ DoNewFixedKeyRingFromPublicKeys
  \/ DoSignBuilt
  \/ DoVerify
  \/ DoSerialize
  \/ DoDeserialize

SpecHP == Init /\ [][NextHP]_vars

\* the wire format: bytes of a signature, changed or not, deserialized
NextWire ==
  \/ DoNewKeyRing
  \/ DoSignBuilt
  \/ DoSerialize
  \/ DoTamper
  \/ DoDeserialize
  \/ DoDeserializeTampered
  \/ DoLinkDecoded

SpecWire == Init /\ [][NextWire]_vars

\* two rings compared
NextEquals ==
  \/ DoNewKeyRing
  \/ DoRingFromKeys
  \/ DoEquals

SpecEquals == Init /\ [][NextEquals]_vars

\* calls of Sign and Verify that run at the same time
NextConcurrent ==
  \/ DoNewKeyRing
  \/ CallSign
  \/ CallVerify
  \/ SignEnter
  \/ SignFirst
  \/ SignIterate
  \/ SignAssign
  \/ SignCloseRing
  \/ SignCompare
  \/ SignDone
  \/ VerifyEnter
  \/ VerifyFirst
  \/ VerifyIterate
  \/ VerifyAssign
  \/ VerifyDone
  \/ ChallengeWrite
  \/ ChallengeHash

SpecConcurrent == InitLink /\ [][NextConcurrent]_vars

\* Sign and Verify called again and again on rings of the constructors
\* and of Deserialize
NextRepeat ==
  \/ DoNewKeyRing
  \/ DoNewFixedKeyRingFromPublicKeys
  \/ DoSign
  \/ DoSignBuilt
  \/ DoSerialize
  \/ DoDeserialize
  \/ DoVerify
  \/ DoVerifyAgain
  \/ DoSignAfter

SpecRepeat == InitLink /\ [][NextRepeat]_vars

\* the scratch vectors: through Sign and Verify on signatures of every
\* shape, and through getScalarScratch and putScalarScratch alone
NextScratch ==
  \/ DoNewKeyRing
  \/ DoRingSign
  \/ DoReset
  \/ DoMalform
  \/ DoVerify
  \/ DoGetScratch
  \/ DoFillScratch
  \/ DoPutScratch

SpecScratch == InitLink /\ [][NextScratch]_vars

\* bytes of a signature, changed or not, deserialized into new signature
\* objects and into those of the session
NextInto ==
  \/ DoNewKeyRing
  \/ DoSignBuilt
  \/ DoSerialize
  \/ DoTamper
  \/ DoDeserialize
  \/ DoDeserializeTampered
  \/ DoDeserializeInto

SpecInto == InitLink /\ [][NextInto]_vars

\* key images on ecdsa keys; a call that runs keeps running
NextKeyImage ==
  \/ DoGenKeyImage
  \/ DoHashToCurveStep
  \/ DoGenKeyImageReturn

SpecKeyImage ==
  InitLink /\ [][NextKeyImage]_vars
    /\ WF_vars(DoHashToCurveStep) /\ WF_vars(DoGenKeyImageReturn)

\* ------------------------------------------------------------------ claims
Returned(call) == call.err = NoErr /\ ~call.panic

\* the signature sid came out of Sign or Ring.Sign and is as returned
FromSign(sid) == made.sigs[sid].op \in {"Sign", "RingSign"} /\ made.sigs[sid].kind = ""

\* C1: completeness.  NewKeyRing(curve, n, x, idx) with n >= 2, 0 <= idx < n
\* and x # 0 returns a ring; Ring.Sign(m, x) on that ring returns a
\* signature; Verify(m) on that signature returns true.
C1_Completeness ==
  /\ (ret.op = "NewKeyRing" /\ ret.size >= 2 /\ ret.idx >= 0 /\ ret.idx < ret.size /\ ret.x # 0)
       => Returned(ret) /\ ret.rid # 0
  /\ (ret.op = "RingSign" /\ made.rings[ret.rid].op = "NewKeyRing"
        /\ Len(rings[ret.rid].pubkeys) >= 2 /\ ret.x = made.rings[ret.rid].x)
       => Returned(ret) /\ ret.sid # 0
  /\ (ret.op = "Verify" /\ made.sigs[ret.sid].op = "RingSign" /\ FromSign(ret.sid)
        /\ ret.m = made.sigs[ret.sid].m)
       => ret.val /\ ~ret.panic

\* a signature over a ring of MaxSize keys verified on Ed25519
WitnessC1 ==
  /\ ret.op = "Verify" /\ made.sigs[ret.sid].op = "RingSign" /\ ret.m = made.sigs[ret.sid].m
  /\ ret.val
  /\ Len(sigs[ret.sid].s) = MaxSize
  /\ rings[sigs[ret.sid].ring].curve = "ed25519"

\* C2: serialization round trip.  Deserialize, with the curve of the
\* signature, of what Serialize returned for a signature of Sign succeeds
\* and gives the same c, s, public keys and image, and a signature that
\* Verify accepts for the signed message.
C2_RoundTrip ==
  /\ (ret.op = "Deserialize" /\ ret.curve = rings[sigs[ret.sid2].ring].curve)
       => /\ ret.err = NoErr
          /\ sigs[ret.sid].c = sigs[ret.sid2].c
          /\ sigs[ret.sid].s = sigs[ret.sid2].s
          /\ sigs[ret.sid].image = sigs[ret.sid2].image
          /\ sigs[ret.sid].ring # NilRing
          /\ rings[sigs[ret.sid].ring].pubkeys = rings[sigs[ret.sid2].ring].pubkeys
  /\ (ret.op = "Verify" /\ made.sigs[ret.sid].op = "Deserialize" /\ sigs[ret.sid].ring # NilRing
        /\ rings[sigs[ret.sid].ring].curve = rings[sigs[1].ring].curve
        /\ ret.m = made.sigs[ret.sid].m)
       => ret.val /\ ~ret.panic

\* a deserialized signature over MaxSize keys verified on secp256k1
WitnessC2 ==
  /\ ret.op = "Verify" /\ made.sigs[ret.sid].op = "Deserialize" /\ ret.val
  /\ ret.m = made.sigs[ret.sid].m
  /\ Len(sigs[ret.sid].s) = MaxSize
  /\ sigs[ret.sid].s = sigs[1].s
  /\ rings[sigs[ret.sid].ring].curve = "secp256k1"

\* C3: message binding.  Verify(m') of a signature of Sign over m returns
\* false for every m' other than m.
C3_MessageBinding ==
  (ret.op = "Verify" /\ FromSign(ret.sid) /\ ret.m # made.sigs[ret.sid].m)
    => ~ret.val /\ ~ret.panic

\* a signature that verifies was refused for another message
WitnessC3 ==
  /\ ret.op = "Verify" /\ FromSign(ret.sid) /\ ret.m # made.sigs[ret.sid].m
  /\ ~ret.val
  /\ Cardinality(DOMAIN oracle) > Len(sigs[ret.sid].s)

SameCurve == rings[sigs[1].ring].curve = rings[sigs[2].ring].curve

\* C4: linkability, same signer.  The image of a signature made with the
\* secret x is x * H_p(x*G), whatever the ring, the index and the message;
\* Link returns true for two signatures made with the same secret on the
\* same curve.
C4_SameSignerLinks ==
  /\ \A sid \in 1..Len(sigs) :
       FromSign(sid) =>
         sigs[sid].image = ScalarMul(made.sigs[sid].x, hashToCurve(ScalarBaseMul(made.sigs[sid].x)))
  /\ (ret.op = "Link" /\ made.sigs[1].x = made.sigs[2].x /\ SameCurve)
       => ret.val /\ ~ret.panic /\ sigs[1].image = sigs[2].image

\* one secret at two indices of two rings of different members, two
\* messages: linked
WitnessC4 ==
  /\ ret.op = "Link" /\ made.sigs[1].x = made.sigs[2].x /\ SameCurve /\ ret.val
  /\ made.rings[1].idx # made.rings[2].idx
  /\ made.sigs[1].m # made.sigs[2].m
  /\ \A i \in 1..Len(rings[1].pubkeys) : rings[1].pubkeys[i] # rings[2].pubkeys[3 - i]
  /\ sigs[1].c # sigs[2].c
  /\ rings[1].curve = "ed25519"

\* C5: linkability, different signers.  Link returns false for two
\* signatures made on the same curve with distinct secrets.
C5_DistinctSignersDoNotLink ==
  (ret.op = "Link" /\ made.sigs[1].x # made.sigs[2].x /\ SameCurve)
    => ~ret.val /\ ~ret.panic

\* two secrets, the same message, on Ed25519: not linked
WitnessC5 ==
  /\ ret.op = "Link" /\ made.sigs[1].x # made.sigs[2].x /\ SameCurve /\ ~ret.val
  /\ made.sigs[1].m = made.sigs[2].m
  /\ rings[1].curve = "ed25519"

\* C6: Verify never raises.  Verify returns a boolean for every signature
\* value, and false for a Reset signature and for every malformed one
\* (no ring, curve, c or image, |s| other than the ring size, a ring of
\* fewer than two keys, a nil entry in s or in pubkeys).
C6_VerifyNeverRaises ==
  ret.op = "Verify" =>
    /\ ~ret.panic
    /\ made.sigs[ret.sid].kind \in MalformedKinds \cup {"reset"} => ~ret.val

\* C7: minimum ring size.  A ring returned by a constructor has at least
\* two public keys; NewKeyRing with size < 2 (and an index that is not
\* negative) returns an error and no ring.
C7_MinimumRingSize ==
  /\ (ret.op \in Constructors /\ Returned(ret))
       => ret.rid # 0 /\ Len(rings[ret.rid].pubkeys) >= 2
  /\ (ret.op = "NewKeyRing" /\ ret.size < 2 /\ ret.idx >= 0)
       => ret.err # NoErr /\ ~ret.panic /\ ret.rid = 0

\* C8: index rejection.  NewKeyRing with idx < 0 or idx >= size, and
\* NewKeyRingFromPublicKeys with idx < 0 or idx > len(pubkeys), return an
\* error and no ring, and do not crash.
C8_IndexRejection ==
  /\ (ret.op = "NewKeyRing" /\ (ret.idx < 0 \/ ret.idx >= ret.size))
       => ret.err # NoErr /\ ~ret.panic /\ ret.rid = 0
  /\ (ret.op = "NewKeyRingFromPublicKeys" /\ (ret.idx < 0 \/ ret.idx > Len(ret.keys)))
       => ret.err # NoErr /\ ~ret.panic /\ ret.rid = 0

\* C9: zero-secret rejection.  NewKeyRing, NewKeyRingFromPublicKeys and
\* Sign called with the secret 0 return an error, and no ring or signature
\* comes to exist.
C9_ZeroSecretRejection ==
  /\ (ret.op \in {"NewKeyRing", "NewKeyRingFromPublicKeys"} /\ ret.x = 0)
       => ret.err # NoErr /\ ~ret.panic /\ ret.rid = 0 /\ rings = <<>>
  /\ (ret.op = "Sign" /\ ret.x = 0)
       => ret.err # NoErr /\ ~ret.panic /\ ret.sid = 0 /\ sigs = <<>>

\* Sign refused the secret 0 at an index of a ring of MaxSize keys that
\* holds 0*G
WitnessC9 ==
  /\ ret.op = "Sign" /\ ret.x = 0 /\ ret.err = "private key is zero"
  /\ Len(rings[ret.rid].pubkeys) = MaxSize
  /\ ret.idx >= 0 /\ ret.idx < MaxSize
  /\ rings[ret.rid].pubkeys[ret.idx + 1] = ScalarBaseMul(0)
  /\ made.rings[ret.rid].op = "NewKeyRing"

\* the list handed to NewKeyRingFromPublicKeys holds x*G, or one point twice
Collides(call) ==
  \/ \E i \in 1..Len(call.keys) : PointEquals(call.keys[i].val, ScalarBaseMul(call.x))
  \/ \E i, j \in 1..Len(call.keys) : i # j /\ PointEquals(call.keys[i].val, call.keys[j].val)

\* C10: signer-collision rejection.  NewKeyRingFromPublicKeys returns the
\* duplicate-public-key error when the list holds a point equal to x*G or
\* two equal points, for every valid idx (and a secret other than 0).
C10_SignerCollisionRejection ==
  (ret.op = "NewKeyRingFromPublicKeys" /\ ret.idx >= 0 /\ ret.idx <= Len(ret.keys)
     /\ ret.x # 0 /\ Collides(ret))
    => ret.err = "duplicate public keys in ring"

\* two entries of the list hold equal points
DupValues(keys) ==
  \E i, j \in 1..Len(keys) : i # j /\ PointEquals(keys[i].val, keys[j].val)

\* C11: fixed-ring duplicate rejection.  NewFixedKeyRingFromPublicKeys
\* returns the duplicate-public-key error when two entries of the list are
\* equal points, the same object or not, and otherwise a ring that holds
\* the given keys in the given order.
C11_FixedDuplicateRejection ==
  ret.op = "NewFixedKeyRingFromPublicKeys" =>
    IF DupValues(ret.keys)
    THEN ret.err = "duplicate public keys in ring" /\ ret.rid = 0
    ELSE /\ Returned(ret) /\ ret.rid # 0
         /\ Len(rings[ret.rid].pubkeys) = Len(ret.keys)
         /\ \A i \in 1..Len(ret.keys) : rings[ret.rid].pubkeys[i] = ret.keys[i].val

\* C12: insertion layout.  A ring NewKeyRingFromPublicKeys returns has
\* len(pubkeys)+1 keys: x*G at idx, pubkeys[i] at every i < idx and
\* pubkeys[i-1] at every i > idx.
C12_InsertionLayout ==
  (ret.op = "NewKeyRingFromPublicKeys" /\ Returned(ret)) =>
    /\ ret.rid # 0
    /\ Len(rings[ret.rid].pubkeys) = Len(ret.keys) + 1
    /\ \A i \in 0..Len(ret.keys) :
         rings[ret.rid].pubkeys[i + 1] =
           IF i = ret.idx THEN ScalarBaseMul(ret.x)
           ELSE IF i < ret.idx THEN ret.keys[i + 1].val ELSE ret.keys[i].val

\* the signer's key put between two different external keys
WitnessC12 ==
  /\ ret.op = "NewKeyRingFromPublicKeys" /\ Returned(ret)
  /\ Len(ret.keys) = 2 /\ ret.idx = 1
  /\ ret.keys[1].val # ret.keys[2].val
  /\ rings[ret.rid].pubkeys[2] = ScalarBaseMul(ret.x)

\* the ring of the call holds x*G at the index of the call
SignerAt(call) ==
  /\ call.idx >= 0 /\ call.idx < Len(rings[call.rid].pubkeys)
  /\ PointEquals(rings[call.rid].pubkeys[call.idx + 1], ScalarBaseMul(call.x))

\* the ring of the call holds x*G
Member(call) ==
  \E i \in 1..Len(rings[call.rid].pubkeys) :
    PointEquals(rings[call.rid].pubkeys[i], ScalarBaseMul(call.x))

\* C14: not-signer rejection.  Sign(m, ring, x, j) returns an error and no
\* signature for every integer j that is not an index at which the ring
\* holds x*G; Ring.Sign(m, x) returns an error when no member is x*G, and
\* signs when one is (x not 0, a ring of two or more).
C14_NotSignerRejection ==
  /\ (ret.op = "Sign" /\ ~SignerAt(ret))
       => ret.err # NoErr /\ ~ret.panic /\ ret.sid = 0
  /\ (ret.op = "RingSign" /\ ~Member(ret))
       => ret.err # NoErr /\ ~ret.panic /\ ret.sid = 0
  /\ (ret.op = "RingSign" /\ Member(ret) /\ ret.x # 0 /\ Len(rings[ret.rid].pubkeys) >= 2)
       => Returned(ret) /\ ret.sid # 0

\* hp holds the generator of every public key of the ring
HPHolds(ring) ==
  /\ Len(ring.hp) = Len(ring.pubkeys)
  /\ \A i \in 1..Len(ring.pubkeys) : ring.hp[i] = hashToCurve(ring.pubkeys[i])

\* C13: precomputation invariant.  Every ring returned by NewKeyRing,
\* NewKeyRingFromPublicKeys, NewFixedKeyRingFromPublicKeys or Deserialize
\* has len(hp) = len(pubkeys) and hp[i] = H_p(pubkeys[i]) for every i, and
\* keeps that through Sign and Verify.
C13_PrecomputationInvariant ==
  \A rid \in 1..Len(rings) :
    made.rings[rid].op \in Constructors \cup {"Deserialize"} => HPHolds(rings[rid])

\* a ring of NewKeyRingFromPublicKeys signed, and the ring Deserialize
\* built from that signature verified: both hold their generators
WitnessC13 ==
  /\ ret.op = "Verify" /\ ret.val /\ made.sigs[ret.sid].op = "Deserialize"
  /\ Len(rings) = 2
  /\ made.rings[1].op = "NewKeyRingFromPublicKeys" /\ made.rings[2].op = "Deserialize"
  /\ Len(rings[2].pubkeys) = MaxSize + 1
  /\ HPHolds(rings[1]) /\ HPHolds(rings[2])

\* C19: mixed-curve linking.  Link returns false, and does not crash, for
\* two signatures whose rings are of different curves, in either order.
C19_MixedCurveLinking ==
  (ret.op = "Link" /\ ~SameCurve) => ~ret.val /\ ~ret.panic

\* the size the header of the bytes handed to Deserialize gives
HeaderSize == Uint32(SubSeq(wire, 1, 4))

\* the length of a signature of n keys on the curve
WireLen(curve, n) ==
  4 + scalarLen + CompressedPointSize(curve) + n * (scalarLen + CompressedPointSize(curve))

\* C15: Deserialize size check.  Deserialize returns an error, and does
\* not crash or assign a field, when the input has fewer than 4 bytes or
\* the size in its header is less than 2.
C15_DeserializeSizeCheck ==
  (ret.op = "Deserialize" /\ (Len(wire) < 4 \/ HeaderSize < 2))
    => ret.err # NoErr /\ ~ret.panic /\ sigs[ret.sid] = NilSig

\* bytes of a whole signature with the size 1 in the header: refused for
\* the size
WitnessC15 ==
  /\ ret.op = "Deserialize" /\ Len(wire) >= WireLen(ret.curve, 2) /\ HeaderSize = 1
  /\ ret.err = "invalid ring size"

\* C16: Deserialize length check.  Deserialize returns an error whenever
\* the input (with a header and a size of 2 or more) is not exactly
\* 4 + 32 + P + n*(32+P) bytes long: shorter or longer.
C16_DeserializeLengthCheck ==
  (ret.op = "Deserialize" /\ Len(wire) >= 4 /\ HeaderSize >= 2
     /\ (HeaderSize > Len(wire) \/ Len(wire) # WireLen(ret.curve, HeaderSize)))
    => ret.err # NoErr /\ sigs[ret.sid] = NilSig

\* C17: wire layout.  Serialize returns 4 + 32 + P + n*(32+P) bytes: n as
\* a big-endian uint32, c, the compressed image, then s[i] and the
\* compressed pubkeys[i] for i = 0..n-1 in order.
C17_WireLayout ==
  ret.op = "Serialize" =>
    LET sig   == sigs[ret.sid]
        ring  == rings[sig.ring]
        n     == Len(ring.pubkeys)
        ps    == CompressedPointSize(ring.curve)
    IN /\ Len(wire) = 4 + 32 + ps + n * (32 + ps)
       /\ SubSeq(wire, 1, 4) = <<0, 0, 0, n>>
       /\ SubSeq(wire, 5, 36) = ScalarEncode(sig.c)
       /\ SubSeq(wire, 37, 36 + ps) = PointEncode(ring.curve, sig.image)
       /\ \A i \in 0..(n - 1) :
            /\ SubSeq(wire, 36 + ps + i * (32 + ps) + 1, 36 + ps + i * (32 + ps) + 32)
                 = ScalarEncode(sig.s[i + 1])
            /\ SubSeq(wire, 36 + ps + i * (32 + ps) + 33, 36 + ps + (i + 1) * (32 + ps))
                 = PointEncode(ring.curve, ring.pubkeys[i + 1])

\* a signature over MaxSize keys serialized on Ed25519
WitnessC17 ==
  /\ ret.op = "Serialize" /\ Len(sigs[ret.sid].s) = MaxSize
  /\ rings[sigs[ret.sid].ring].curve = "ed25519"
  /\ Len(wire) = 4 + 32 + 32 + MaxSize * 64
  /\ sigs[ret.sid].s[1] # sigs[ret.sid].s[MaxSize]

\* C20: Ed25519 cofactor linking.  On Ed25519 Link returns true exactly
\* when the two images are equal up to an element of the small subgroup;
\* on secp256k1 exactly when the images are equal.
C20_CofactorLinking ==
  (ret.op = "Link" /\ rings[sigs[ret.sid].ring].curve = rings[sigs[ret.sid2].ring].curve) =>
    /\ ~ret.panic
    /\ IF rings[sigs[ret.sid].ring].curve = "ed25519"
       THEN ret.val <=> sigs[ret.sid].image.v = sigs[ret.sid2].image.v
       ELSE ret.val <=> PointEquals(sigs[ret.sid].image, sigs[ret.sid2].image)

\* two different images that differ by an element of the small subgroup:
\* linked
WitnessC20 ==
  /\ ret.op = "Link" /\ ret.val
  /\ rings[sigs[ret.sid].ring].curve = "ed25519"
  /\ rings[sigs[ret.sid2].ring].curve = "ed25519"
  /\ sigs[ret.sid].image # sigs[ret.sid2].image
  /\ sigs[ret.sid].image.t = 0 /\ sigs[ret.sid2].image.t = 4

\* C18: ring equality.  r.Equals(other) is true exactly when the rings
\* have the same size, the same curve and equal public keys at every
\* index; a ring whose keys are those of the other in another order is
\* not equal to it.
C18_RingEquality ==
  ret.op = "Equals" =>
    /\ ret.val <=> /\ Len(rings[ret.rid].pubkeys) = Len(rings[ret.idx].pubkeys)
                   /\ rings[ret.rid].curve = rings[ret.idx].curve
                   /\ \A i \in 1..Len(rings[ret.rid].pubkeys) :
                        rings[ret.rid].pubkeys[i] = rings[ret.idx].pubkeys[i]
    /\ rings[ret.rid].pubkeys # rings[ret.idx].pubkeys => ~ret.val

\* a ring of two different keys and its rotation, on one curve: not equal
WitnessC18 ==
  /\ ret.op = "Equals" /\ ~ret.val
  /\ rings[1].curve = rings[2].curve
  /\ Len(rings[1].pubkeys) = 2 /\ Len(rings[2].pubkeys) = 2
  /\ rings[2].pubkeys[1] = rings[1].pubkeys[2] /\ rings[2].pubkeys[2] = rings[1].pubkeys[1]
  /\ rings[1].pubkeys[1] # rings[1].pubkeys[2]

\* the addresses the calls in flight hold, and those resting in a pool
HeldVecs(p) == IF calls.procs[p].vec = 0 THEN {} ELSE {calls.procs[p].vec}
HeldBufs(p) == IF calls.procs[p].buf = 0 THEN {} ELSE {calls.procs[p].buf}
Pooled(pool) == {pool[i] : i \in 1..Len(pool)}

\* no scratch vector and no challenge buffer is held by two calls, or by a
\* call while it rests in a pool, or rests in a pool twice
NoSharing ==
  /\ \A p, q \in 1..Len(calls.procs) :
       p # q => HeldVecs(p) \cap HeldVecs(q) = {} /\ HeldBufs(p) \cap HeldBufs(q) = {}
  /\ \A p \in 1..Len(calls.procs) :
       /\ HeldBufs(p) \cap Pooled(challengeBufPool) = {}
       /\ \A k \in 1..Len(scalarPoolCaps) : HeldVecs(p) \cap Pooled(scalarPools[k]) = {}
  /\ Cardinality(Pooled(challengeBufPool)) = Len(challengeBufPool)
  /\ \A k \in 1..Len(scalarPoolCaps) : Cardinality(Pooled(scalarPools[k])) = Len(scalarPools[k])

\* the world of a call that runs alone: no other call, empty pools
AloneWorld ==
  [rings |-> rings, or |-> oracle, bp |-> <<>>, sp |-> [k \in 1..Len(scalarPoolCaps) |-> <<>>]]

\* a call that returned gave what it gives when it runs alone
AloneResult(proc) ==
  IF proc.op = "Verify"
  THEN LET alone == Verify(AloneWorld, sigs[proc.sid], proc.m)
       IN proc.out.val = alone.val /\ proc.out.panic = alone.panic
  ELSE LET alone == Sign(AloneWorld, proc.m, proc.rid, proc.x, proc.idx, proc.u, proc.rs)
       IN proc.out.err = alone.err /\ proc.out.panic = alone.panic /\ proc.out.sig = alone.sig

\* a step of a call leaves every ring and every signature as it was
WritesNothingShared ==
  calls' # calls => rings' = rings /\ \A sid \in 1..Len(sigs) : sigs'[sid] = sigs[sid]

\* C21: concurrent use.  While calls of Verify on one signature and calls
\* of Sign run at the same time, in any interleaving, no pooled scratch
\* vector or challenge buffer is held by two calls at once, no call writes
\* to a ring or a signature, and every call returns what it returns when
\* it runs alone.
C21_ConcurrentUse ==
  /\ [](NoSharing /\ \A p \in 1..Len(calls.procs) :
                       calls.procs[p].pc = "done" => AloneResult(calls.procs[p]))
  /\ [][WritesNothingShared]_vars

\* two calls of Verify on one signature ran at the same time, each with a
\* scratch vector and a buffer of its own, and returned true
WitnessC21 ==
  /\ Len(calls.procs) = 3
  /\ \A p \in 1..3 : calls.procs[p].pc = "done"
  /\ calls.procs[2].op = "Verify" /\ calls.procs[3].op = "Verify"
  /\ calls.procs[2].sid = calls.procs[3].sid
  /\ calls.procs[2].out.val /\ calls.procs[3].out.val
  /\ Len(calls.vecs) = 2 /\ Len(calls.bufs) = 2
  /\ Len(rings[1].pubkeys) = MaxSize

\* a call of Sign or Verify returns in this step
SignReturns   == ret' # ret /\ ret'.op \in {"Sign", "RingSign"}
VerifyReturns == ret' # ret /\ ret'.op = "Verify"

\* C22: ring immutability.  A call of Sign or Verify, successful or not,
\* on a ring of a constructor or of Deserialize leaves pubkeys, hp and
\* curve of every ring as they were; Verify leaves c, s and image of every
\* signature as they were; Verify called again on the same signature and
\* message returns what it returned before.
C22_RingImmutability ==
  [][/\ (SignReturns \/ VerifyReturns) => rings' = rings
     /\ SignReturns => \A sid \in 1..Len(sigs) : sigs'[sid] = sigs[sid]
     /\ VerifyReturns => sigs' = sigs
     /\ (VerifyReturns /\ ret.op = "Verify" /\ ret'.sid = ret.sid /\ ret'.m = ret.m)
          => ret'.val = ret.val /\ ret'.panic = ret.panic]_vars

\* a signature Deserialize built verified twice for its message, with its
\* ring holding its generators as before
WitnessC22 ==
  /\ ret.op = "Verify" /\ ret.kind = "again" /\ ret.val
  /\ made.sigs[ret.sid].op = "Deserialize"
  /\ made.rings[sigs[ret.sid].ring].op = "Deserialize"
  /\ Len(rings[sigs[ret.sid].ring].pubkeys) = MaxSize
  /\ HPHolds(rings[sigs[ret.sid].ring])

\* C23: ring closure.  For a ring of two or more keys, an index j with
\* pubkeys[j] = x*G and x not 0, none of the self-checks of Sign fails:
\* Sign returns a signature with len(s) = n, every s[i], c and the image
\* not nil; and s[j] reproduces L_j = u*G and R_j = u*H_j for the u drawn
\* (stated for j = 0, where the c of the signature is c[j]).
C23_RingClosure ==
  (ret.op = "Sign" /\ Len(rings[ret.rid].pubkeys) >= 2 /\ SignerAt(ret) /\ ret.x # 0) =>
    /\ Returned(ret) /\ ret.sid # 0
    /\ LET sig  == sigs[ret.sid]
           ring == rings[ret.rid]
       IN /\ Len(sig.s) = Len(ring.pubkeys)
          /\ \A i \in 1..Len(sig.s) : sig.s[i] # NilScalar
          /\ sig.c # NilScalar /\ sig.image # NilPoint
          /\ ret.idx = 0 =>
               \E u \in Scalars :
                 /\ LPoint(sig.c, sig.s[1], ring.pubkeys[1]) = ScalarBaseMul(u)
                 /\ RPoint(sig.c, sig.s[1], ring.hp[1], sig.image) = ScalarMul(u, ring.hp[1])

\* Sign returned a signature for the signer at the last index of a ring of
\* MaxSize keys, where the chain of challenges wraps around
WitnessC23 ==
  /\ ret.op = "Sign" /\ Returned(ret) /\ ret.sid # 0
  /\ Len(rings[ret.rid].pubkeys) = MaxSize /\ ret.idx = MaxSize - 1
  /\ Len(sigs[ret.sid].s) = MaxSize
  /\ sigs[ret.sid].s[MaxSize] # NilScalar /\ sigs[ret.sid].c # NilScalar

\* scratch vectors as an earlier call could have left them, had it not
\* cleared them: the same scalar in every slot, or a different one in each
StaleVectors ==
  {SubSeq([i \in 1..scalarPoolCaps[1] |-> g], 1, scalarPoolCaps[1]) : g \in {0, 1, Order - 1}}
    \cup {SubSeq([i \in 1..scalarPoolCaps[1] |-> i % Order], 1, scalarPoolCaps[1])}

\* the world with the vector v resting in the first bucket
WithPooled(v) == [World EXCEPT !.sp = [k \in 1..Len(scalarPoolCaps) |-> IF k = 1 THEN <<v>> ELSE <<>>]]

\* the world with empty pools: getScalarScratch allocates
WithFresh == [World EXCEPT !.sp = [k \in 1..Len(scalarPoolCaps) |-> <<>>]]

SameSign(a, b) == a.err = b.err /\ a.panic = b.panic /\ a.sig = b.sig

\* what the call of Sign recorded in ret returned
SignGave(call, res) ==
  /\ res.err = call.err /\ res.panic = call.panic
  /\ call.sid # 0 => res.sig = sigs[call.sid]

\* C24: scratch independence.  Sign and Verify write every slot of the
\* pooled scratch c before they read it, for every ring size and signer
\* index: what they return is what they return with a freshly allocated
\* vector, and with a pooled vector that holds scalars of an earlier call.
C24_ScratchIndependence ==
  /\ ret.op = "Verify" =>
       LET fresh == Verify(WithFresh, sigs[ret.sid], ret.m)
       IN /\ fresh.val = ret.val /\ fresh.panic = ret.panic
          /\ \A v \in StaleVectors :
               LET stale == Verify(WithPooled(v), sigs[ret.sid], ret.m)
               IN stale.val = ret.val /\ stale.panic = ret.panic
  /\ ret.op = "Sign" =>
       \E u \in RandScalars, rs \in RandSeqs(ret.rid) :
         LET fresh == Sign(WithFresh, ret.m, ret.rid, ret.x, ret.idx, u, rs)
         IN /\ SignGave(ret, fresh)
            /\ \A v \in StaleVectors :
                 SameSign(Sign(WithPooled(v), ret.m, ret.rid, ret.x, ret.idx, u, rs), fresh)

\* Verify took the vector an earlier call had put into the pool and
\* accepted a signature over MaxSize keys made at the last index
WitnessC24 ==
  /\ ret.op = "Verify" /\ ret.val
  /\ made.sigs[ret.sid].op = "Sign" /\ made.sigs[ret.sid].idx = MaxSize - 1
  /\ Len(sigs[ret.sid].s) = MaxSize
  /\ Len(scalarPools[1]) = 1
  /\ \A v \in StaleVectors : Verify(WithPooled(v), sigs[ret.sid], ret.m).val

\* the vector rests in bucket k as the claim says: of the capacity of the
\* bucket, nil in every element
AtRest(v, k) == Len(v) = scalarPoolCaps[k] /\ \A i \in 1..Len(v) : v[i] = NilScalar

\* C25: scratch clearing.  After any sequence of calls of Sign and Verify,
\* also of those that fail after they took a scratch vector, every vector
\* that rests in a bucket has the capacity of the bucket (16, 32, 64, 128
\* or 256) and nil in every element; a vector of another capacity is not
\* pooled.
C25_ScratchClearing ==
  /\ scalarPoolCaps = <<16, 32, 64, 128, 256>>
  /\ \A k \in 1..Len(scalarPoolCaps) :
       \A i \in 1..Len(scalarPools[k]) : AtRest(scalarPools[k][i], k)
  /\ (ret.op = "putScalarScratch" /\ \A k \in 1..Len(scalarPoolCaps) : Len(ret.arr) # scalarPoolCaps[k])
       => \A k \in 1..Len(scalarPoolCaps) : \A i \in 1..Len(scalarPools[k]) : scalarPools[k][i] # ret.arr

\* Verify crashed in its loop, on a signature with a nil s[i], after it
\* took the vector the call of Sign had put back: the vector rests in its
\* bucket, cleared
WitnessC25 ==
  /\ ret.op = "Verify" /\ ret.panic /\ made.sigs[ret.sid].kind = "nil s"
  /\ Len(scalarPools[1]) = 1 /\ AtRest(scalarPools[1][1], 1)

\* challenge buffers as earlier calls could have left them
StaleBuffers ==
  {SubSeq([i \in 1..challengeBufCap |-> b], 1, challengeBufCap) : b \in {1, 255}}
    \cup {SubSeq([i \in 1..challengeBufCap |-> i], 1, challengeBufCap)}

\* the world with the buffer b resting in the pool, and with an empty pool
WithBuffer(b) == [World EXCEPT !.bp = <<b>>]
WithNoBuffer  == [World EXCEPT !.bp = <<>>]

\* data is m || encode(L) || encode(R) for a message and two points of
\* one of the curves
ChallengeInput(data) ==
  \E curve \in Curves :
    LET ps == CompressedPointSize(curve)
    IN /\ Len(data) = 32 + 2 * ps
       /\ SubSeq(data, 1, 32) \in Msgs
       /\ ~DecodeToPoint(curve, SubSeq(data, 33, 32 + ps)).err
       /\ ~DecodeToPoint(curve, SubSeq(data, 33 + ps, 32 + 2 * ps)).err

\* C26: challenge determinism.  challenge hashes exactly the 32 + 2P
\* bytes m || encode(L) || encode(R), all of them written in the call:
\* a call of Sign hashes the same inputs and returns the same signature
\* whatever buffer the pool hands out and whatever the buffer held, also
\* when calls on secp256k1 (P = 33) and Ed25519 (P = 32) take turns on one
\* pooled buffer.
C26_ChallengeDeterminism ==
  /\ \A data \in DOMAIN oracle : ChallengeInput(data)
  /\ ret.op = "RingSign" =>
       \E u \in RandScalars, rs \in RandSeqs(ret.rid) :
         LET fresh == RingSign(WithNoBuffer, ret.m, ret.rid, ret.x, u, rs)
         IN /\ SignGave(ret, fresh) /\ fresh.w.or = oracle
            /\ \A b \in StaleBuffers :
                 LET stale == RingSign(WithBuffer(b), ret.m, ret.rid, ret.x, u, rs)
                 IN SameSign(stale, fresh) /\ stale.w.or = oracle

\* a signature on Ed25519 made with the buffer a call on secp256k1 had
\* used: the buffer rests in the pool with a byte of that call behind the
\* 96 bytes hashed
WitnessC26 ==
  /\ ret.op = "RingSign" /\ Returned(ret) /\ ret.rid = 2
  /\ rings[1].curve = "secp256k1" /\ rings[2].curve = "ed25519"
  /\ Len(challengeBufPool) = 1 /\ Len(challengeBufPool[1]) = challengeBufCap
  /\ challengeBufPool[1][challengeBufCap - 1] # 0
  /\ \A data \in DOMAIN oracle : ChallengeInput(data)

\* the guards at the head of Verify let the signature through
PassesGuards(sig) ==
  /\ sig.ring # NilRing
  /\ Len(rings[sig.ring].pubkeys) >= 2 /\ Len(sig.s) = Len(rings[sig.ring].pubkeys)
  /\ sig.c # NilScalar /\ sig.image # NilPoint /\ rings[sig.ring].curve # NilCurve
  /\ ~ensureHP(rings[sig.ring]).err

\* the iterations i = 0, 1, ... the loop of Verify completes, in order,
\* each on the c the one before left
RECURSIVE Completed(_, _, _, _, _)
Completed(lp, i, m, ring, sig) ==
  IF i >= Len(ring.pubkeys) THEN i
  ELSE LET nx == VerifyStep(lp, i, m, ring, sig)
       IN IF nx.st # "ok" THEN i ELSE Completed(nx, i + 1, m, ring, sig)

LoopStart(sig) ==
  VerifyStart(World, getScalarScratch(scalarPools, Len(sig.s)), sig)

\* C27: no early exit.  Once a signature has passed the guards at the head
\* of Verify, the loop completes all n iterations i = 0..n-1 in order, each
\* on the c[i] of the iteration before, and the value returned is the
\* comparison of the last challenge with the signature's c.
C27_NoEarlyExit ==
  ret.op = "Verify" /\ PassesGuards(sigs[ret.sid]) =>
    LET sig  == sigs[ret.sid]
        ring == rings[sig.ring]
    IN /\ Completed(LoopStart(sig), 0, ret.m, ring, sig) = Len(ring.pubkeys)
       /\ ~ret.panic
       /\ ret.val = ScEq(sig.c, VerifyLoop(LoopStart(sig), 0, ret.m, ring, sig).c[1])

\* a signature past the guards with a nil entry in s or in the public keys
HasNilEntry ==
  /\ ret.op = "Verify" /\ PassesGuards(sigs[ret.sid])
  /\ \E i \in 1..Len(sigs[ret.sid].s) :
       \/ sigs[ret.sid].s[i] = NilScalar
       \/ rings[sigs[ret.sid].ring].pubkeys[i] = NilPoint

\* the same for the signatures whose s and public keys have no nil entry
NoEarlyExitOnFilled == ~HasNilEntry => C27_NoEarlyExit

\* Deserialize returns, on a receiver the session already had
DeserializeIntoReturns == ret' # ret /\ ret'.op = "DeserializeInto"

\* C28: Deserialize is all-or-nothing.  When Deserialize returns an error
\* (short header, size under 2, short input, a scalar or a point that does
\* not decode), the receiver's ring, c, s and image, and every other
\* signature and ring, are as they were before the call; when it returns
\* none, the receiver holds the decoded c, s and image and a ring of its
\* own with the decoded keys.
C28_DeserializeAllOrNothing ==
  [][DeserializeIntoReturns =>
       IF ret'.err # NoErr
       THEN sigs' = sigs /\ rings' = rings
       ELSE LET res == Deserialize(ret'.curve, wire)
            IN /\ res.err = NoErr
               /\ Len(rings') = Len(rings) + 1 /\ rings'[Len(rings')] = res.ring
               /\ sigs'[ret'.sid] = [res.sig EXCEPT !.ring = Len(rings')]
               /\ \A k \in 1..Len(rings) : rings'[k] = rings[k]
               /\ \A k \in 1..Len(sigs) : k # ret'.sid => sigs'[k] = sigs[k]]_vars

\* Deserialize failed on a point of the input, after c had decoded, with a
\* signature that Sign returned as the receiver: the signature is whole
WitnessC28 ==
  /\ ret.op = "DeserializeInto" /\ ret.err \in {"decode image", "decode s or pubkey"}
  /\ made.sigs[ret.sid].op = "RingSign"
  /\ Complete(sigs[ret.sid])
  /\ ~DecodeToScalar(SubSeq(wire, 5, 4 + scalarLen)).err

\* hashToCurve made its 128 attempts and none gave a point
Exhausted(call) == call.idx = safety /\ call.size = safety

C30_RandomScalarsNonZero ==
  ret.op = "NewKeyRing" /\ Returned(ret) /\ ret.rid # 0 =>
    \A i \in 1..Len(rings[ret.rid].pubkeys) :
      i - 1 # ret.idx =>
        /\ \E k \in 1..(Order - 1) : rings[ret.rid].pubkeys[i] = ScalarBaseMul(k)
        /\ rings[ret.rid].pubkeys[i] # Identity

====
